---- MODULE Spec2Model ----
(***************************************************************************)
(* Model of abcd-dicom2bids: the QC-driven series selection of             *)
(* src/s3_downloader_revised.py (add_anat_paths, add_func_paths,           *)
(* add_dwi_paths, as called by one (subject, session) iteration of main)   *)
(* and the filename-suffix computation of reformat_fastqc_spreadsheet in   *)
(* abcd2bids.py; further the loops of main over subjects and sessions with *)
(* the manifest, the totals and the missing-files log, a second run on the *)
(* same log, and the steps, cleanup and exits of the wrapper abcd2bids.py. *)
(*                                                                         *)
(* A catalog slice (pandas DataFrame) is a sequence of rows; a row is a    *)
(* record with the columns the selectors read: SeriesType, usable and      *)
(* filename.  Row order is the DataFrame's row order, which iloc[i] uses.  *)
(***************************************************************************)
EXTENDS Integers, Sequences, FiniteSets, TLC

VARIABLES
    sub_ses_df,      \* main: rows of the current (subject, session), unfiltered
    file_paths,      \* main: the path list handed from selector to selector
    has_t1, has_t2, has_sefm, has_rsfmri, has_mid, has_sst, has_nback, has_dti,
    pc,              \* position of main inside the iteration / of the wrapper step
    all_qc_data,     \* reformat_fastqc_spreadsheet: the raw QC table
    reformatted_data,\* reformat_fastqc_spreadsheet: the rows kept, with suffix
    series_df,       \* main: the QC table read at line 118
    subject_list,    \* main: the lines of the --subject-list file
    modalities,      \* main: the list given by --modalities
    sub_index,       \* main: place of `for sub in subject_list`
    year_index,      \* main: place of `for bids_year in year_list`
    num,             \* main: the running totals num_sub_visits, num_t1, ...
    log,             \* main: the rows written to the download log (manifest)
    missing_files_log, \* the file temp/missing_files.txt
    path_index,      \* main: place of `for file_path in file_paths`
    split_index,     \* main: place of `for split_value in file_path.split(';')`
    tgz_dirs,        \* the session folders that main made under download_dir
    downloaded,      \* the files that s3cmd get wrote under download_dir
    s3,              \* the bucket: the objects ls does not find / get cannot read
    peer_pc,         \* a second run of main on the same missing-files log
    remove,          \* abcd2bids.py: cli_args.remove
    start_at,        \* abcd2bids.py: cli_args.start_at
    subject_dir_paths, \* unpack_and_setup: the subject folders still to unpack
    output,          \* the sessions that unpack_and_setup.sh has converted
    temp_dir,        \* abcd2bids.py: the subdirectories of cli_args.temp
    exit_code,       \* abcd2bids.py: how the wrapper ended
    printed          \* abcd2bids.py: the timestamp lines printed so far

vars == <<sub_ses_df, file_paths, has_t1, has_t2, has_sefm, has_rsfmri,
          has_mid, has_sst, has_nback, has_dti, pc, all_qc_data,
          reformatted_data, series_df, subject_list, modalities, sub_index,
          year_index,
          num, log,
          missing_files_log, path_index, split_index, tgz_dirs, downloaded,
          s3, peer_pc, remove, start_at, subject_dir_paths, output, temp_dir,
          exit_code, printed>>

selvars == <<sub_ses_df, file_paths, has_t1, has_t2, has_sefm, has_rsfmri,
             has_mid, has_sst, has_nback, has_dti>>

fmtvars == <<all_qc_data, reformatted_data>>

mainvars == <<series_df, subject_list, modalities, sub_index, year_index, num,
              log,
              missing_files_log, path_index, split_index, tgz_dirs,
              downloaded, s3>>

peervars == <<peer_pc>>

wrapvars == <<remove, start_at, subject_dir_paths, output, temp_dir,
              exit_code>>

outvars == <<printed>>

\* no second run of main beside this one, and the wrapper, started without
\* --remove and with an empty temp folder, still running
Alone ==
    /\ peer_pc = "off"
    /\ remove = FALSE
    /\ start_at = "reformat_fastqc_spreadsheet"
    /\ temp_dir = {}
    /\ exit_code = "none"
    /\ subject_dir_paths = <<>>
    /\ output = {}
    /\ printed = <<>>

\* lines 83-90: the totals before the first iteration
ZeroNum == [sub_visits |-> 0, t1 |-> 0, t2 |-> 0, rsfmri |-> 0, mid |-> 0,
            sst |-> 0, nback |-> 0, dti |-> 0]

\* temp/missing_files.txt before any run has created it
NoFile == [exists |-> FALSE, lines |-> <<>>]

\* line 24: the modalities of a run that is not given any
MODALITIES == <<"anat", "func", "dwi">>

\* the state of main around one iteration looked at on its own: the first
\* pair of a run for the given modalities, counted at line 162 and with its
\* session folder made at line 165, nothing written yet
FirstIterationFor(list) ==
    /\ series_df = <<>>
    /\ subject_list = <<"A">>
    /\ modalities = list
    /\ sub_index = 1 /\ year_index = 1
    /\ num = [ZeroNum EXCEPT !.sub_visits = 1]
    /\ log = <<>>
    /\ missing_files_log = NoFile
    /\ path_index = 1 /\ split_index = 1
    /\ tgz_dirs = {<<<<"sub-", "A">>, "00A">>}
    /\ downloaded = {}
    /\ s3 = [missing |-> {}, unreadable |-> {}]
    /\ Alone

FirstIteration == FirstIterationFor(MODALITIES)

\* the downloader has not been started
MainNotStarted ==
    /\ series_df = <<>>
    /\ subject_list = <<"A">>
    /\ modalities = MODALITIES
    /\ sub_index = 1 /\ year_index = 1
    /\ num = ZeroNum
    /\ log = <<>>
    /\ missing_files_log = NoFile
    /\ path_index = 1 /\ split_index = 1
    /\ tgz_dirs = {}
    /\ downloaded = {}
    /\ s3 = [missing |-> {}, unreadable |-> {}]
    /\ Alone

-----------------------------------------------------------------------------
(* Bounds *)

\* longest catalog slice of one (subject, session)
MaxRows == 4

-----------------------------------------------------------------------------
(* DataFrame helpers *)

\* df[df['SeriesType'] == t]
OfType(df, t) == SelectSeq(df, LAMBDA r : r.SeriesType = t)

\* sub_ses_df[sub_ses_df['usable'] != 0.0]
sub_pass_QC_df(df) == SelectSeq(df, LAMBDA r : r.usable # 0)

\* df['filename'] as a list
filenames(df) == [i \in 1..Len(df) |-> df[i].filename]

\* the exclusion sentinel returned by add_func_paths
SENTINEL == 10000

-----------------------------------------------------------------------------
(* add_anat_paths *)

\* faulty variant: the plain rows are listed in addition to the NORM rows
anat_contrast_additive(passed_QC_group, norm, plain) ==
    OfType(passed_QC_group, norm) \o OfType(passed_QC_group, plain)

\* one contrast of add_anat_paths: the NORM rows if any, else the plain rows
anat_contrast(passed_QC_group, norm, plain) ==
    LET N_df == OfType(passed_QC_group, norm)
    IN  IF N_df = <<>> THEN OfType(passed_QC_group, plain) ELSE N_df

add_anat_paths(passed_QC_group, paths) ==
    LET T1_df == anat_contrast(passed_QC_group, "ABCD-T1-NORM", "ABCD-T1")
        T2_df == anat_contrast(passed_QC_group, "ABCD-T2-NORM", "ABCD-T2")
    IN  <<paths \o filenames(T1_df) \o filenames(T2_df), Len(T1_df), Len(T2_df)>>

-----------------------------------------------------------------------------
(* add_func_paths *)

FUNC_TYPES == {"ABCD-rsfMRI", "ABCD-MID-fMRI", "ABCD-nBack-fMRI", "ABCD-SST-fMRI"}

\* faulty variant: the activation test is dropped
any_func_always(passed_QC_group) == TRUE

\* passed_QC_group['SeriesType'].isin([...]).any()
any_func(passed_QC_group) ==
    \E i \in 1..Len(passed_QC_group) : passed_QC_group[i].SeriesType \in FUNC_TYPES

\* upper_range: the smaller of the two candidate counts
pair_upper_range(AP_df, PA_df) ==
    IF Len(AP_df) <= Len(PA_df) THEN Len(AP_df) ELSE Len(PA_df)

\* faulty variant: only the AP member of a pair is tested
pair_usable_AP_only(ap, pa) == ap.usable # 0

\* the usability test made on AP[i] and PA[i] before the pair is appended
pair_usable(ap, pa) == ap.usable # 0 /\ pa.usable # 0

\* for i in range(0, upper_range): append AP[i], PA[i] when both are usable
\* (i counts from 1 here, iloc[i-1] in the source; DataFrame.append is the
\* row append of pandas before 2.0, which the source is written for)
RECURSIVE pair_fmaps(_, _, _, _, _)
pair_fmaps(FM_df, AP_df, PA_df, i, upper_range) ==
    IF i > upper_range THEN FM_df
    ELSE pair_fmaps(IF pair_usable(AP_df[i], PA_df[i])
                        THEN FM_df \o <<AP_df[i], PA_df[i]>>
                        ELSE FM_df,
                    AP_df, PA_df, i + 1, upper_range)

\* faulty variant: the directional pairs are appended to the combined rows
func_FM_df_with_pairs(all_group, passed_QC_group) ==
    LET FM_AP_df == OfType(all_group, "ABCD-fMRI-FM-AP")
        FM_PA_df == OfType(all_group, "ABCD-fMRI-FM-PA")
    IN  pair_fmaps(OfType(passed_QC_group, "ABCD-fMRI-FM"), FM_AP_df, FM_PA_df, 1,
                   pair_upper_range(FM_AP_df, FM_PA_df))

\* lines 292-311: the QC-passing combined rows if any, else the index-wise
\* usable AP/PA pairs of the unfiltered slice
func_FM_df(all_group, passed_QC_group) ==
    LET FM_df    == OfType(passed_QC_group, "ABCD-fMRI-FM")
        FM_AP_df == OfType(all_group, "ABCD-fMRI-FM-AP")
        FM_PA_df == OfType(all_group, "ABCD-fMRI-FM-PA")
    IN  IF FM_df = <<>>
            THEN IF FM_AP_df = <<>>
                     THEN FM_df
                     ELSE pair_fmaps(FM_df, FM_AP_df, FM_PA_df, 1,
                                     pair_upper_range(FM_AP_df, FM_PA_df))
            ELSE FM_df

\* faulty variant: the no-field-map branch returns plain zeros
func_no_fmap_zeros(paths) == <<paths, 0, 0, 0, 0, 0>>

\* faulty variant: the no-field-map branch marks the rsfMRI count only
func_no_fmap_rest_only(paths) == <<paths, 0, SENTINEL, 0, 0, 0>>

\* the return of line 314, taken when no field-map set was found
func_no_fmap(paths) == <<paths, 0, SENTINEL, SENTINEL, SENTINEL, SENTINEL>>

\* faulty variant: a series type without passing rows is given the sentinel
add_passing_series_sentinel(passed_QC_group, t, paths) ==
    LET t_df == OfType(passed_QC_group, t)
    IN  IF t_df = <<>> THEN <<paths, SENTINEL>>
                       ELSE <<paths \o filenames(t_df), Len(t_df)>>

\* the block repeated at lines 322-328, 331-338, 339-345 and 346-352: every
\* QC-passing row of series type t is listed and counted (0 when there is none)
\* returns (file_paths, count)
add_passing_series(passed_QC_group, t, paths) ==
    LET t_df == OfType(passed_QC_group, t)
    IN  IF t_df = <<>> THEN <<paths, 0>>
                       ELSE <<paths \o filenames(t_df), Len(t_df)>>

\* returns (file_paths, has_sefm, has_rsfmri, has_mid, has_sst, has_nback)
add_func_paths(all_group, passed_QC_group, paths) ==
    IF any_func(passed_QC_group)
        THEN LET FM_df == func_FM_df(all_group, passed_QC_group)
                 rs    == add_passing_series(passed_QC_group, "ABCD-rsfMRI",
                                             paths \o filenames(FM_df))
                 mid   == add_passing_series(passed_QC_group, "ABCD-MID-fMRI", rs[1])
                 sst   == add_passing_series(passed_QC_group, "ABCD-SST-fMRI", mid[1])
                 nback == add_passing_series(passed_QC_group, "ABCD-nBack-fMRI", sst[1])
             IN  IF FM_df = <<>>
                     THEN func_no_fmap(paths)
                     ELSE <<nback[1], Len(FM_df), rs[2], mid[2], sst[2], nback[2]>>
        ELSE <<paths, 0, 0, 0, 0, 0>>

-----------------------------------------------------------------------------
(* add_dwi_paths *)

\* has_dti of the early return of line 373, taken when the DTI rows have no
\* combined field map and the slice has no Diffusion-FM-AP row
dwi_no_AP_count(DTI_df) == 0

\* lines 364-384: the QC-passing combined rows if any, else the usable pairs
dwi_FM_df(all_group, passed_QC_group) ==
    LET DTI_FM_df    == OfType(passed_QC_group, "ABCD-Diffusion-FM")
        DTI_FM_AP_df == OfType(all_group, "ABCD-Diffusion-FM-AP")
        DTI_FM_PA_df == OfType(all_group, "ABCD-Diffusion-FM-PA")
    IN  IF DTI_FM_df = <<>>
            THEN pair_fmaps(<<>>, DTI_FM_AP_df, DTI_FM_PA_df, 1,
                            pair_upper_range(DTI_FM_AP_df, DTI_FM_PA_df))
            ELSE DTI_FM_df

\* faulty variant: the DTI rows are listed even without a field map
dwi_select_always(DTI_df, DTI_FM_df, paths) ==
    paths \o filenames(DTI_df) \o filenames(DTI_FM_df)

\* faulty variant: the diffusion paths are put in front of the list
dwi_select_in_front(DTI_df, DTI_FM_df, paths) ==
    IF DTI_FM_df # <<>>
        THEN filenames(DTI_df) \o filenames(DTI_FM_df) \o paths
        ELSE paths

\* lines 385-389: the DTI rows and the field maps are listed together or not at all
dwi_select(DTI_df, DTI_FM_df, paths) ==
    IF DTI_FM_df # <<>>
        THEN paths \o filenames(DTI_df) \o filenames(DTI_FM_df)
        ELSE paths

\* returns (file_paths, has_dti)
add_dwi_paths(all_group, passed_QC_group, paths) ==
    LET DTI_df == OfType(passed_QC_group, "ABCD-DTI")
    IN  IF Len(DTI_df) >= 1
            THEN IF /\ OfType(passed_QC_group, "ABCD-Diffusion-FM") = <<>>
                    /\ OfType(all_group, "ABCD-Diffusion-FM-AP") = <<>>
                     THEN <<paths, dwi_no_AP_count(DTI_df)>>
                     ELSE <<dwi_select(DTI_df, dwi_FM_df(all_group, passed_QC_group),
                                       paths),
                            Len(DTI_df)>>
            ELSE <<paths, Len(DTI_df)>>

-----------------------------------------------------------------------------
(* main: one (subject, session) iteration, lines 148-172 *)

\* faulty variant: every selector is called whatever the list holds
requested_always(modality) == TRUE

\* lines 167, 169, 171: 'anat' in modalities, for a list
requested(modality) == \E i \in DOMAIN modalities : modalities[i] = modality

\* if 'anat' in modalities: (file_paths, has_t1, has_t2) = add_anat_paths(...)
CallAnat ==
    /\ pc = "anat"
    /\ IF requested("anat")
       THEN LET r == add_anat_paths(sub_pass_QC_df(sub_ses_df), file_paths)
            IN  /\ file_paths' = r[1]
                /\ has_t1' = r[2]
                /\ has_t2' = r[3]
       ELSE UNCHANGED <<file_paths, has_t1, has_t2>>
    /\ pc' = "func"
    /\ UNCHANGED <<sub_ses_df, has_sefm, has_rsfmri, has_mid, has_sst,
                   has_nback, has_dti, fmtvars, peervars, wrapvars, mainvars, outvars>>

\* if 'func' in modalities: (file_paths, has_sefm, ...) = add_func_paths(...)
CallFunc ==
    /\ pc = "func"
    /\ IF requested("func")
       THEN LET r == add_func_paths(sub_ses_df, sub_pass_QC_df(sub_ses_df),
                                   file_paths)
            IN  /\ file_paths' = r[1]
                /\ has_sefm' = r[2]
                /\ has_rsfmri' = r[3]
                /\ has_mid' = r[4]
                /\ has_sst' = r[5]
                /\ has_nback' = r[6]
       ELSE UNCHANGED <<file_paths, has_sefm, has_rsfmri, has_mid, has_sst,
                        has_nback>>
    /\ pc' = "dwi"
    /\ UNCHANGED <<sub_ses_df, has_t1, has_t2, has_dti, fmtvars, peervars, wrapvars, mainvars, outvars>>

\* if 'dwi' in modalities: (file_paths, has_dti) = add_dwi_paths(...)
CallDwi ==
    /\ pc = "dwi"
    /\ IF requested("dwi")
       THEN LET r == add_dwi_paths(sub_ses_df, sub_pass_QC_df(sub_ses_df),
                                  file_paths)
            IN  /\ file_paths' = r[1]
                /\ has_dti' = r[2]
       ELSE UNCHANGED <<file_paths, has_dti>>
    /\ pc' = "row"
    /\ UNCHANGED <<sub_ses_df, has_t1, has_t2, has_sefm, has_rsfmri, has_mid,
                   has_sst, has_nback, fmtvars, peervars, wrapvars, mainvars, outvars>>

\* the QC values of the 'usable' column: 0 fails, anything else passes
USABLE == {0, 1}

\* a row as the QC table gives it, before it is given its filename
RowKinds(types) == [SeriesType : types, usable : USABLE]

\* a row's filename is its own, distinct from every other row's
WithFilenames(s) ==
    [i \in 1..Len(s) |-> [SeriesType |-> s[i].SeriesType,
                          usable |-> s[i].usable, filename |-> i]]

\* lines 148-160: the slice is cut out (any slice of at most MaxRows rows
\* drawn from kinds), the path list and the counts are reset
BeginVisit(kinds) ==
    /\ \E n \in 0..MaxRows :
           \E s \in [1..n -> kinds] : sub_ses_df = WithFilenames(s)
    /\ file_paths = <<>>
    /\ has_t1 = 0 /\ has_t2 = 0 /\ has_sefm = 0 /\ has_rsfmri = 0
    /\ has_mid = 0 /\ has_sst = 0 /\ has_nback = 0 /\ has_dti = 0
    /\ pc = "anat"
    /\ all_qc_data = <<>>
    /\ reformatted_data = <<>>
    /\ FirstIteration

ANAT_TYPES == {"ABCD-T1-NORM", "ABCD-T1", "ABCD-T2-NORM", "ABCD-T2", "ABCD-DTI"}

FUNC_SLICE_TYPES == FUNC_TYPES \cup {"ABCD-fMRI-FM", "ABCD-fMRI-FM-AP",
                                     "ABCD-fMRI-FM-PA"}

\* a QC-passing anatomical row, listed by add_anat_paths before the call
T1_ROW == [SeriesType |-> "ABCD-T1", usable |-> 1]

DWI_SLICE_TYPES == {"ABCD-DTI", "ABCD-Diffusion-FM", "ABCD-Diffusion-FM-AP",
                    "ABCD-Diffusion-FM-PA", "ABCD-rsfMRI"}

InitAnat == BeginVisit(RowKinds(ANAT_TYPES))
InitFunc == BeginVisit(RowKinds(FUNC_SLICE_TYPES) \cup {T1_ROW})
InitDwi == BeginVisit(RowKinds(DWI_SLICE_TYPES))

NextVisit == CallAnat \/ CallFunc \/ CallDwi

SpecAnat == InitAnat /\ [][NextVisit]_vars
\* the iteration up to the return of add_func_paths
NextFunc == CallAnat \/ CallFunc

SpecFunc == InitFunc /\ [][NextFunc]_vars
SpecDwi == InitDwi /\ [][NextVisit]_vars

\* slices holding functional and diffusion field-map candidates side by side
PAIR_SLICE_TYPES == {"ABCD-rsfMRI", "ABCD-fMRI-FM-AP", "ABCD-fMRI-FM-PA",
                     "ABCD-DTI", "ABCD-Diffusion-FM-AP", "ABCD-Diffusion-FM-PA"}

InitPair == BeginVisit(RowKinds(PAIR_SLICE_TYPES))
SpecPair == InitPair /\ [][NextVisit]_vars

\* slices with rows for all three selectors: a passing T1, and behind it
\* functional and diffusion runs and their field maps, passing or not, and
\* passing T2 rows
ORDER_KINDS ==
    RowKinds({"ABCD-rsfMRI", "ABCD-fMRI-FM", "ABCD-DTI", "ABCD-Diffusion-FM"})
        \cup {[SeriesType |-> "ABCD-T2", usable |-> 1]}

InitOrder ==
    /\ \E n \in 0..MaxRows :
           \E s \in [1..n -> ORDER_KINDS] :
               sub_ses_df = WithFilenames(<<T1_ROW>> \o s)
    /\ file_paths = <<>>
    /\ has_t1 = 0 /\ has_t2 = 0 /\ has_sefm = 0 /\ has_rsfmri = 0
    /\ has_mid = 0 /\ has_sst = 0 /\ has_nback = 0 /\ has_dti = 0
    /\ pc = "anat"
    /\ all_qc_data = <<>>
    /\ reformatted_data = <<>>
    /\ FirstIteration

SpecOrder == InitOrder /\ [][NextVisit]_vars

\* the lists that --modalities can give: any of the three names, in the
\* order of MODALITIES
MODALITY_LISTS ==
    {SelectSeq(MODALITIES, LAMBDA m : m \in chosen) :
        chosen \in SUBSET {"anat", "func", "dwi"}}

\* passing rows for all three selectors
MODALITY_KINDS ==
    {[SeriesType |-> t, usable |-> 1] :
        t \in {"ABCD-T2", "ABCD-rsfMRI", "ABCD-fMRI-FM", "ABCD-DTI",
               "ABCD-Diffusion-FM"}}

\* one iteration of a run for any list of modalities, on a slice with a
\* passing T1
InitModalities ==
    /\ \E n \in 0..MaxRows :
           \E s \in [1..n -> MODALITY_KINDS] :
               sub_ses_df = WithFilenames(<<T1_ROW>> \o s)
    /\ file_paths = <<>>
    /\ has_t1 = 0 /\ has_t2 = 0 /\ has_sefm = 0 /\ has_rsfmri = 0
    /\ has_mid = 0 /\ has_sst = 0 /\ has_nback = 0 /\ has_dti = 0
    /\ pc = "anat"
    /\ all_qc_data = <<>>
    /\ reformatted_data = <<>>
    /\ \E list \in MODALITY_LISTS : FirstIterationFor(list)

SpecModalities == InitModalities /\ [][NextVisit]_vars

-----------------------------------------------------------------------------
(* reformat_fastqc_spreadsheet (abcd2bids.py)                               *)
(*                                                                         *)
(* A cell of the QC table is an int, a float (whole part n, one fraction    *)
(* digit f), NaN / None, or a string.  A string is the sequence of its      *)
(* pieces: single characters where the code looks inside the string         *)
(* (quotes, digits, the dot), whole literals of the source elsewhere.       *)

\* most rows of a raw QC table
MaxRawRows == 2

IntCell(n)      == [k |-> "int",   n |-> n, f |-> 0, s |-> <<>>]
FloatCell(n, f) == [k |-> "float", n |-> n, f |-> f, s |-> <<>>]
NaN             == [k |-> "nan",   n |-> 0, f |-> 0, s |-> <<>>]
StrCell(s)      == [k |-> "str",   n |-> 0, f |-> 0, s |-> s]

DIGITS == <<"0", "1", "2", "3", "4", "5", "6", "7", "8", "9">>

IsDigit(c) == \E d \in 1..10 : DIGITS[d] = c

DigitVal(c) == (CHOOSE d \in 1..10 : DIGITS[d] = c) - 1

\* x.strip('"') on a string
RECURSIVE strip_quotes(_)
strip_quotes(s) ==
    IF s = <<>> THEN s
    ELSE IF Head(s) = "\"" THEN strip_quotes(Tail(s))
    ELSE IF s[Len(s)] = "\"" THEN strip_quotes(SubSeq(s, 1, Len(s) - 1))
    ELSE s

\* str.isnumeric(): not empty and digits only
isnumeric(s) == s # <<>> /\ \A i \in 1..Len(s) : IsDigit(s[i])

\* int(s) of a string of digits
RECURSIVE int_of_digits(_)
int_of_digits(s) ==
    IF s = <<>> THEN 0
    ELSE 10 * int_of_digits(SubSeq(s, 1, Len(s) - 1)) + DigitVal(s[Len(s)])

\* str(n) of an int n >= 0
RECURSIVE str_int(_)
str_int(n) ==
    IF n < 10 THEN <<DIGITS[n + 1]>>
    ELSE str_int(n \div 10) \o <<DIGITS[(n % 10) + 1]>>

\* s.zfill(width)
RECURSIVE zfill(_, _)
zfill(s, width) == IF Len(s) >= width THEN s ELSE zfill(<<"0">> \o s, width)

\* s.split('.')[0]
RECURSIVE split_dot_first(_)
split_dot_first(s) ==
    IF s = <<>> \/ Head(s) = "." THEN <<>>
    ELSE <<Head(s)>> \o split_dot_first(Tail(s))

\* lines 441-442 on one cell: quotes stripped, an all-digit string made an int
clean_cell(c) ==
    IF c.k # "str" THEN c
    ELSE LET t == strip_quotes(c.s)
         IN  IF isnumeric(t) THEN IntCell(int_of_digits(t)) ELSE StrCell(t)

COLUMNS == {"pGUID", "EventName", "SeriesType", "ABCD_Compliant",
            "SeriesDescription", "Completed", "StudyDate", "SeriesTime", "QC"}

clean_row(r) == [c \in COLUMNS |-> clean_cell(r[c])]

\* all_qc_data['Completed'] != 0
ne_zero(c) == ~(c.k \in {"int", "float"} /\ c.n = 0 /\ c.f = 0)

\* all_qc_data['ABCD_Compliant'] != 'Bad'
ne_Bad(c) == ~(c.k = "str" /\ c.s = <<"Bad">>)

\* faulty variant: rows that failed QC are dropped as well
keeps_row_usable_only(r) ==
    ne_zero(r["Completed"]) /\ ne_Bad(r["ABCD_Compliant"]) /\ ne_zero(r["QC"])

\* lines 453-455
keeps_row(r) == ne_zero(r["Completed"]) /\ ne_Bad(r["ABCD_Compliant"])

\* int(x) raises ValueError: x is a string that line 442 left as it was, that
\* is one that is not all digits
int_raises(c) == c.k = "str"

\* lines 467-469: str(int(x)).zfill(6) if pd.notna(x) else '000000'
pad_SeriesTime(c) ==
    IF c.k = "nan" THEN <<"0", "0", "0", "0", "0", "0">>
    ELSE zfill(str_int(c.n), 6)

\* StudyDate.astype(str) on one cell
astype_str(c) ==
    CASE c.k = "int"   -> str_int(c.n)
      [] c.k = "float" -> str_int(c.n) \o <<".">> \o str_int(c.f)
      [] c.k = "nan"   -> <<"n", "a", "n">>
      [] c.k = "str"   -> c.s

\* lines 472-474
dicom_filename_ends_with(StudyDate, SeriesTime) ==
    split_dot_first(astype_str(StudyDate) \o SeriesTime)

\* str.replace(old, new) where old is one piece of the path
replace(path, old, new) ==
    [i \in 1..Len(path) |-> IF path[i] = old THEN new ELSE path[i]]

\* faulty variant: the SST task has no event file
TASK_TYPES_without_SST == {"fMRI_nBack_task", "fMRI_MID_task"}

TASK_TYPES == {"fMRI_nBack_task", "fMRI_MID_task", "fMRI_SST_task"}

\* lines 480-511: the archive path of a series type, <<>> for None
base_path(series_type, filename_suffix) ==
    LET tail == <<"_run-">> \o filename_suffix \o <<".dicom.tgz">>
    IN  CASE series_type = "T1_NORM" -> <<"anat/ABCD-T1-NORM">> \o tail
          [] series_type = "T1" -> <<"anat/ABCD-T1">> \o tail
          [] series_type = "T2_NORM" -> <<"anat/ABCD-T2-NORM">> \o tail
          [] series_type = "T2" -> <<"anat/ABCD-T2">> \o tail
          [] series_type = "dMRI" -> <<"dwi/ABCD-DTI">> \o tail
          [] series_type = "dMRI_FM_AP" -> <<"fmap/ABCD-Diffusion-FM-", "AP">> \o tail
          [] series_type = "dMRI_FM_PA" -> <<"fmap/ABCD-Diffusion-FM-", "PA">> \o tail
          [] series_type = "fMRI_FM_AP" -> <<"fmap/ABCD-fMRI-FM-", "AP">> \o tail
          [] series_type = "fMRI_FM_PA" -> <<"fmap/ABCD-fMRI-FM-", "PA">> \o tail
          [] series_type = "fMRI_FM" -> <<"fmap/ABCD-fMRI-FM">> \o tail
          [] series_type = "dMRI_FM" -> <<"fmap/ABCD-Diffusion-FM">> \o tail
          [] series_type = "rsfMRI" -> <<"func/ABCD-", "rsfMRI">> \o tail
          [] series_type = "fMRI_nBack_task" -> <<"func/ABCD-", "nBack", "-fMRI">> \o tail
          [] series_type = "fMRI_MID_task" -> <<"func/ABCD-", "MID", "-fMRI">> \o tail
          [] series_type = "fMRI_SST_task" -> <<"func/ABCD-", "SST", "-fMRI">> \o tail
          [] OTHER -> <<>>

\* lines 477-527: 'base;json' or 'base;json;events', None without a template
determine_file_path(SeriesType, filename_suffix) ==
    LET series_type == IF SeriesType.k = "str" /\ Len(SeriesType.s) = 1
                           THEN SeriesType.s[1] ELSE ""
        base == base_path(series_type, filename_suffix)
        json_path == replace(base, ".dicom.tgz", ".json")
        event_related_info_path ==
            replace(base, ".dicom.tgz", "-EventRelatedInformation.txt")
    IN  IF base = <<>> THEN NaN
        ELSE IF series_type \in TASK_TYPES
            THEN StrCell(base \o <<";">> \o json_path \o <<";">>
                              \o event_related_info_path)
            ELSE StrCell(base \o <<";">> \o json_path)

\* lines 464-529 on one kept row; index is the row's label in all_qc_data
reformat_row(r, index) ==
    LET SeriesTime == pad_SeriesTime(r["SeriesTime"])
        suffix == dicom_filename_ends_with(r["StudyDate"], SeriesTime)
    IN  [index |-> index,
         pGUID |-> r["pGUID"], EventName |-> r["EventName"],
         SeriesType |-> r["SeriesType"], ABCD_Compliant |-> r["ABCD_Compliant"],
         SeriesDescription |-> r["SeriesDescription"],
         Completed |-> r["Completed"], StudyDate |-> r["StudyDate"],
         SeriesTime |-> SeriesTime, QC |-> r["QC"],
         dicom_filename_ends_with |-> suffix,
         file_path |-> determine_file_path(r["SeriesType"], suffix)]

\* the place of a piece in the order of Python strings, among the pieces that
\* can stand at the same position of two sort keys
PieceOrder ==
    <<"-EventRelatedInformation.txt", ".", ".dicom.tgz", ".json",
      "0", "1", "2", "3", "4", "5", "6", "7", "8", "9", ";",
      "AP", "MID", "PA", "SST", "_run-", "-fMRI",
      "anat/ABCD-T1-NORM", "anat/ABCD-T1", "anat/ABCD-T2-NORM", "anat/ABCD-T2",
      "dwi/ABCD-DTI",
      "fmap/ABCD-Diffusion-FM-", "fmap/ABCD-Diffusion-FM",
      "fmap/ABCD-fMRI-FM-", "fmap/ABCD-fMRI-FM", "func/ABCD-",
      "a", "n", "nBack", "rsfMRI",
      "ses-00A", "sub-A", "sub-B">>

Code(piece) ==
    IF \E i \in 1..Len(PieceOrder) : PieceOrder[i] = piece
        THEN CHOOSE i \in 1..Len(PieceOrder) : PieceOrder[i] = piece
        ELSE Len(PieceOrder) + 1

\* a < b for two strings
RECURSIVE str_less(_, _)
str_less(a, b) ==
    IF b = <<>> THEN FALSE
    ELSE IF a = <<>> THEN TRUE
    ELSE IF Head(a) = Head(b) THEN str_less(Tail(a), Tail(b))
    ELSE Code(Head(a)) < Code(Head(b))

\* order of two cells of a sort column, NaN / None last
cell_less(a, b) ==
    CASE a.k = "nan" -> FALSE
      [] b.k = "nan" -> TRUE
      [] a.k = "str" /\ b.k = "str" -> str_less(a.s, b.s)
      [] a.k = "str" \/ b.k = "str" -> FALSE
      [] OTHER -> a.n < b.n \/ (a.n = b.n /\ a.f < b.f)

\* order by pGUID, EventName, SeriesDescription, file_path
row_less(x, y) ==
    \/ cell_less(x.pGUID, y.pGUID)
    \/ /\ x.pGUID = y.pGUID
       /\ \/ cell_less(x.EventName, y.EventName)
          \/ /\ x.EventName = y.EventName
             /\ \/ cell_less(x.SeriesDescription, y.SeriesDescription)
                \/ /\ x.SeriesDescription = y.SeriesDescription
                   /\ cell_less(x.file_path, y.file_path)

\* r put behind every row of the sorted rows that is not greater than it
RECURSIVE insert_row(_, _)
insert_row(sorted, r) ==
    IF sorted = <<>> THEN <<r>>
    ELSE IF row_less(r, Head(sorted)) THEN <<r>> \o sorted
    ELSE <<Head(sorted)>> \o insert_row(Tail(sorted), r)

\* lines 532-537: sort_values, rows with equal keys keep their order
RECURSIVE sort_values(_)
sort_values(rows) ==
    IF rows = <<>> THEN <<>>
    ELSE insert_row(sort_values(SubSeq(rows, 1, Len(rows) - 1)), rows[Len(rows)])

\* lines 441-464: the cleaned table, and the labels of the rows the filter keeps
cleaned_qc_data == [i \in 1..Len(all_qc_data) |-> clean_row(all_qc_data[i])]

RECURSIVE kept_from(_)
kept_from(i) ==
    IF i > Len(all_qc_data) THEN <<>>
    ELSE (IF keeps_row(cleaned_qc_data[i]) THEN <<i>> ELSE <<>>) \o kept_from(i + 1)

filtered_index == kept_from(1)

\* the SeriesTime of a kept row makes int() raise
reformat_raises ==
    \E k \in 1..Len(filtered_index) :
        int_raises(cleaned_qc_data[filtered_index[k]]["SeriesTime"])

\* lines 93-107: the line that get_and_print_timestamp_when prints, without
\* the time of day
timestamp_when(script, did_what) == [script |-> script, did_what |-> did_what]

\* lines 80-85: the lines printed around a step that returns
step_returns(step) ==
    printed' = printed \o <<timestamp_when(step, "started"),
                            timestamp_when(step, "finished")>>

\* lines 80-82: the line printed before a step that raises
step_raises(step) ==
    printed' = Append(printed, timestamp_when(step, "started"))

\* the step of the wrapper: the table is cleaned, filtered, given suffix and
\* file_path, sorted and saved; a ValueError of int() ends the wrapper instead
reformat_fastqc_spreadsheet ==
    /\ pc = "reformat_fastqc_spreadsheet"
    /\ \/ /\ ~reformat_raises
          /\ reformatted_data' =
                 sort_values([k \in 1..Len(filtered_index) |->
                                 reformat_row(cleaned_qc_data[filtered_index[k]],
                                              filtered_index[k])])
          /\ pc' = "download_s3_data"
          /\ step_returns("reformat_fastqc_spreadsheet")
       \/ /\ reformat_raises
          /\ reformatted_data' = reformatted_data
          /\ pc' = "crashed"
          /\ step_raises("reformat_fastqc_spreadsheet")
    /\ UNCHANGED <<all_qc_data, selvars, mainvars, peervars, wrapvars>>

\* a raw row with the given date, time and filter cells
RawRow(date, time, completed, compliant) ==
    [c \in COLUMNS |->
        CASE c = "pGUID" -> StrCell(<<"sub-A">>)
          [] c = "EventName" -> StrCell(<<"ses-00A">>)
          [] c = "SeriesType" -> StrCell(<<"T1">>)
          [] c = "ABCD_Compliant" -> compliant
          [] c = "SeriesDescription" -> StrCell(<<"anat/ABCD-T1">>)
          [] c = "Completed" -> completed
          [] c = "StudyDate" -> date
          [] c = "SeriesTime" -> time
          [] c = "QC" -> IntCell(1)]

\* a study date as an int, as a float, and quoted
DATE_CELLS == {IntCell(20180102), FloatCell(20180102, 0),
               StrCell(<<"\"", "2", "0", "1", "7", "1", "2", "3", "1", "\"">>)}

\* a series time as an int of 5 and of 6 digits, as a float, missing, quoted,
\* and written with colons
TIME_CELLS == {IntCell(93015), IntCell(123456), FloatCell(7, 5), NaN,
               StrCell(<<"\"", "4", "5", "\"">>),
               StrCell(<<"0", "9", ":", "3", "0">>)}

SUFFIX_ROWS ==
    {RawRow(d, t, fl[1], fl[2]) :
        d \in DATE_CELLS, t \in TIME_CELLS,
        fl \in {<<IntCell(1), StrCell(<<"Yes">>)>>,
                <<IntCell(0), StrCell(<<"Yes">>)>>,
                <<IntCell(1), StrCell(<<"\"", "Bad", "\"">>)>>}}

InitSuffix ==
    /\ \E n \in 1..MaxRawRows : all_qc_data \in [1..n -> SUFFIX_ROWS]
    /\ reformatted_data = <<>>
    /\ pc = "reformat_fastqc_spreadsheet"
    /\ sub_ses_df = <<>>
    /\ file_paths = <<>>
    /\ has_t1 = 0 /\ has_t2 = 0 /\ has_sefm = 0 /\ has_rsfmri = 0
    /\ has_mid = 0 /\ has_sst = 0 /\ has_nback = 0 /\ has_dti = 0
    /\ MainNotStarted

NextSuffix == reformat_fastqc_spreadsheet

SpecSuffix == InitSuffix /\ [][NextSuffix]_vars

\* a raw row of the given series type and QC value
RawRowOf(series_type, qc, date, time, completed, compliant) ==
    [RawRow(date, time, completed, compliant)
        EXCEPT !["SeriesType"] = StrCell(<<series_type>>), !["QC"] = qc]

\* a raw table of rows of the given set, before the normalizer runs
InitTable(rows) ==
    /\ \E n \in 1..MaxRawRows : all_qc_data \in [1..n -> rows]
    /\ reformatted_data = <<>>
    /\ pc = "reformat_fastqc_spreadsheet"
    /\ sub_ses_df = <<>>
    /\ file_paths = <<>>
    /\ has_t1 = 0 /\ has_t2 = 0 /\ has_sefm = 0 /\ has_rsfmri = 0
    /\ has_mid = 0 /\ has_sst = 0 /\ has_nback = 0 /\ has_dti = 0
    /\ MainNotStarted

\* the completeness flag as 1, 0, 0.0 and a quoted 0
COMPLETED_CELLS == {IntCell(1), IntCell(0), FloatCell(0, 0),
                    StrCell(<<"\"", "0", "\"">>)}

\* the compliance flag as Yes, Bad and a quoted Bad
COMPLIANT_CELLS == {StrCell(<<"Yes">>), StrCell(<<"Bad">>),
                    StrCell(<<"\"", "Bad", "\"">>)}

\* series type, QC value and series time of a row: an ordinary T1 row, one
\* that failed QC, one of a type without a path template, one without a
\* time, and one with all three
OTHER_CELLS ==
    {<<"T1", IntCell(1), IntCell(93015)>>,
     <<"T1", IntCell(0), IntCell(93015)>>,
     <<"Localizer", IntCell(1), IntCell(93015)>>,
     <<"T1", IntCell(1), NaN>>,
     <<"Localizer", IntCell(0), NaN>>}

FILTER_ROWS ==
    {RawRowOf(o[1], o[2], IntCell(20180102), o[3], completed, compliant) :
        o \in OTHER_CELLS, completed \in COMPLETED_CELLS,
        compliant \in COMPLIANT_CELLS}

InitFilter == InitTable(FILTER_ROWS)

SpecFilter == InitFilter /\ [][NextSuffix]_vars

\* the series types that lines 480-511 name, and one they do not
SERIES_TYPES == {"T1_NORM", "T1", "T2_NORM", "T2", "dMRI", "dMRI_FM_AP",
                 "dMRI_FM_PA", "fMRI_FM_AP", "fMRI_FM_PA", "fMRI_FM", "dMRI_FM",
                 "rsfMRI", "fMRI_nBack_task", "fMRI_MID_task", "fMRI_SST_task",
                 "Localizer"}

\* kept rows of every series type, with and without a series time
PATH_ROWS ==
    {RawRowOf(t, IntCell(1), IntCell(20180102), time, IntCell(1),
              StrCell(<<"Yes">>)) :
        t \in SERIES_TYPES, time \in {IntCell(93015), NaN}}

InitPaths == InitTable(PATH_ROWS)

SpecPaths == InitPaths /\ [][NextSuffix]_vars

-----------------------------------------------------------------------------
(* main of s3_downloader_revised.py: the loops over subjects and sessions,  *)
(* the manifest row and the totals, the missing-files log and the download  *)
(* of every selected path.                                                  *)
(*                                                                         *)
(* Strings are sequences of pieces, as in the normalizer.  The bucket is    *)
(* part of the surroundings of a run: s3.missing holds the objects that     *)
(* `s3cmd ls` does not find, s3.unreadable those that `s3cmd get` fails on. *)

\* --sessions of the run
year_list == <<"00A", "02A">>

\* --s3-bucket
s3_bucket == "s3://bucket"

\* line 131 and line 134
bids_id_of(sub) == <<"sub-", sub>>

year_of(bids_year) == <<"ses-", bids_year>>

\* a row of the QC table
Row(pGUID, EventName, SeriesType, usable, filename) ==
    [pGUID |-> pGUID, EventName |-> EventName, SeriesType |-> SeriesType,
     usable |-> usable, filename |-> filename]

\* the rows that the QC table can hold for one (subject, session): none; a
\* passing T1 next to a resting-state run without any field map; a
\* resting-state run and a diffusion run with their field maps and a T2 that
\* failed QC
NO_ROWS == <<>>

T1_AND_REST(pGUID, EventName) ==
    <<Row(pGUID, EventName, "ABCD-T1", 1,
          <<"anat/t1.tgz", ";", " ", "anat/t1.json">>),
      Row(pGUID, EventName, "ABCD-rsfMRI", 1, <<"func/rest.tgz">>)>>

REST_AND_DTI(pGUID, EventName) ==
    <<Row(pGUID, EventName, "ABCD-T2", 0, <<"anat/t2.tgz">>),
      Row(pGUID, EventName, "ABCD-fMRI-FM", 1, <<"fmap/fm.tgz">>),
      Row(pGUID, EventName, "ABCD-rsfMRI", 1, <<"func/rest.tgz">>),
      Row(pGUID, EventName, "ABCD-Diffusion-FM", 1, <<"fmap/dfm.tgz">>),
      Row(pGUID, EventName, "ABCD-DTI", 1, <<"dwi/dti.tgz">>)>>

SLICE_KINDS == {"NO_ROWS", "T1_AND_REST", "REST_AND_DTI"}

VisitSlice(kind, pGUID, EventName) ==
    CASE kind = "NO_ROWS" -> NO_ROWS
      [] kind = "T1_AND_REST" -> T1_AND_REST(pGUID, EventName)
      [] kind = "REST_AND_DTI" -> REST_AND_DTI(pGUID, EventName)

\* the (subject, session) pairs the table is sorted by
TablePairs ==
    <<<<"A", "00A">>, <<"A", "02A">>, <<"B", "00A">>, <<"B", "02A">>>>

\* a subject of the table that the subject list does not name
FOREIGN_ROWS == T1_AND_REST(bids_id_of("Z"), year_of("00A"))

RECURSIVE Concat(_)
Concat(seqs) == IF seqs = <<>> THEN <<>> ELSE Head(seqs) \o Concat(Tail(seqs))

\* the tables read at line 118: any of the slices for each pair
SeriesTables ==
    {Concat([i \in 1..Len(TablePairs) |->
                VisitSlice(kinds[i], bids_id_of(TablePairs[i][1]),
                           year_of(TablePairs[i][2]))]) \o FOREIGN_ROWS :
        kinds \in [1..Len(TablePairs) -> SLICE_KINDS]}

\* the object names of the bucket that the table can ask for
OBJECTS == {<<"anat/t1.tgz">>, <<"anat/t1.json">>, <<"func/rest.tgz">>,
            <<"fmap/fm.tgz">>, <<"fmap/dfm.tgz">>, <<"dwi/dti.tgz">>}

\* s.split(sep) where sep is one piece of s
RECURSIVE split(_, _)
split(str, sep) ==
    IF str = <<>> THEN <<<<>>>>
    ELSE LET rest == split(Tail(str), sep)
         IN  IF Head(str) = sep THEN <<<<>>>> \o rest
             ELSE <<<<Head(str)>> \o Head(rest)>> \o Tail(rest)

\* s.strip()
RECURSIVE strip(_)
strip(str) ==
    IF str = <<>> THEN str
    ELSE IF Head(str) = " " THEN strip(Tail(str))
    ELSE IF str[Len(str)] = " " THEN strip(SubSeq(str, 1, Len(str) - 1))
    ELSE str

\* line 209
full_file_path_of(split_value) == <<s3_bucket, "/">> \o strip(split_value)

\* the line of line 231 (get failed) and of line 238 (ls failed)
line_231(bids_id, bids_year, full_file_path) ==
    bids_id \o <<"; ", bids_year, "; ">> \o full_file_path \o <<"\n">>

line_238(bids_id, bids_year, full_file_path) ==
    bids_id \o <<"; ", bids_year, "; ">> \o full_file_path \o <<"; ", "\n">>

\* faulty variant: the path list of the visit before is kept
StartIteration_keeps_list ==
    /\ pc = "for"
    /\ sub_index <= Len(subject_list)
    /\ LET bids_id == bids_id_of(subject_list[sub_index])
           subject_df == SelectSeq(series_df, LAMBDA r : r.pGUID = bids_id)
           year == year_of(year_list[year_index])
       IN  sub_ses_df' = SelectSeq(subject_df, LAMBDA r : r.EventName = year)
    /\ file_paths' = file_paths
    /\ has_t1' = 0 /\ has_t2' = 0 /\ has_sefm' = 0 /\ has_rsfmri' = 0
    /\ has_mid' = 0 /\ has_sst' = 0 /\ has_nback' = 0 /\ has_dti' = 0
    /\ num' = [num EXCEPT !.sub_visits = @ + 1]
    /\ tgz_dirs' = tgz_dirs \cup {<<bids_id_of(subject_list[sub_index]),
                                    year_list[year_index]>>}
    /\ pc' = "anat"
    /\ UNCHANGED <<fmtvars, peervars, wrapvars, series_df, subject_list, modalities,
                   sub_index, year_index, log, missing_files_log, path_index,
                   split_index, downloaded, s3, outvars>>

\* lines 128-165: the next pair of the two loops is entered
StartIteration ==
    /\ pc = "for"
    /\ sub_index <= Len(subject_list)
    /\ LET bids_id == bids_id_of(subject_list[sub_index])
           subject_df == SelectSeq(series_df, LAMBDA r : r.pGUID = bids_id)
           year == year_of(year_list[year_index])
       IN  sub_ses_df' = SelectSeq(subject_df, LAMBDA r : r.EventName = year)
    /\ file_paths' = <<>>
    /\ has_t1' = 0 /\ has_t2' = 0 /\ has_sefm' = 0 /\ has_rsfmri' = 0
    /\ has_mid' = 0 /\ has_sst' = 0 /\ has_nback' = 0 /\ has_dti' = 0
    /\ num' = [num EXCEPT !.sub_visits = @ + 1]
    /\ tgz_dirs' = tgz_dirs \cup {<<bids_id_of(subject_list[sub_index]),
                                    year_list[year_index]>>}
    /\ pc' = "anat"
    /\ UNCHANGED <<fmtvars, peervars, wrapvars, series_df, subject_list, modalities,
                   sub_index, year_index, log, missing_files_log, path_index,
                   split_index, downloaded, s3, outvars>>

\* faulty variant: a sentinel counts as a series
counted_sentinel_too(has) == has # 0

\* the test of lines 184-191 and of lines 180, 182, 192
counted(has) == has # 0 /\ has # SENTINEL

nonzero(has) == has # 0

\* lines 178-193: the manifest row is written, the totals are raised
WriteRow ==
    /\ pc = "row"
    /\ log' = Append(log,
                     [bids_id |-> bids_id_of(subject_list[sub_index]),
                      year |-> year_of(year_list[year_index]),
                      has_t1 |-> has_t1, has_t2 |-> has_t2,
                      has_sefm |-> has_sefm, has_rsfmri |-> has_rsfmri,
                      has_mid |-> has_mid, has_sst |-> has_sst,
                      has_nback |-> has_nback, has_dti |-> has_dti])
    /\ num' = [num EXCEPT
                  !.t1 = IF nonzero(has_t1) THEN @ + 1 ELSE @,
                  !.t2 = IF nonzero(has_t2) THEN @ + 1 ELSE @,
                  !.rsfmri = IF counted(has_rsfmri) THEN @ + 1 ELSE @,
                  !.mid = IF counted(has_mid) THEN @ + 1 ELSE @,
                  !.sst = IF counted(has_sst) THEN @ + 1 ELSE @,
                  !.nback = IF counted(has_nback) THEN @ + 1 ELSE @,
                  !.dti = IF nonzero(has_dti) THEN @ + 1 ELSE @]
    /\ pc' = "exists"
    /\ UNCHANGED <<selvars, fmtvars, peervars, wrapvars, series_df, subject_list, modalities, sub_index, year_index,
                   missing_files_log, path_index, split_index, tgz_dirs, downloaded, s3, outvars>>

\* line 198: os.path.exists(missing_files_log)
CheckExists ==
    /\ pc = "exists"
    /\ pc' = IF missing_files_log.exists THEN "download" ELSE "create"
    /\ path_index' = 1
    /\ split_index' = 1
    /\ UNCHANGED <<selvars, fmtvars, peervars, wrapvars, series_df, subject_list, modalities, sub_index, year_index, num, log,
                   missing_files_log, tgz_dirs, downloaded, s3, outvars>>

\* lines 199-201: open(missing_files_log, 'w') empties the file, whatever it
\* holds by now, and the header is written
CreateLog ==
    /\ pc = "create"
    /\ missing_files_log' =
           [exists |-> TRUE, lines |-> <<<<"Missing files log:", "\n">>>>]
    /\ pc' = "download"
    /\ UNCHANGED <<selvars, fmtvars, peervars, wrapvars, series_df, subject_list, modalities, sub_index, year_index, num, log,
                   path_index, split_index, tgz_dirs, downloaded, s3, outvars>>

\* faulty variant: the line is not written
appended_nothing(file, line) == file

\* open(missing_files_log, 'a') and write(line)
appended(file, line) == [file EXCEPT !.exists = TRUE, !.lines = Append(@, line)]

\* faulty variant: the inner loop is left after its first value
next_split_leaves_path(p, i, n) == <<p + 1, 1>>

\* lines 203 and 207: the place of the two loops after value i of the n
\* values of path p
next_split(p, i, n) == IF i < n THEN <<p, i + 1>> ELSE <<p + 1, 1>>

\* lines 203-240 for one split_value: ls, then get, or a line of the
\* missing-files log.  The local file system works: the append to a file
\* that lines 198-201 made sure of succeeds, so the except of line 239, which
\* prints the OSError and goes on, has nothing to catch.
DownloadSplit ==
    /\ pc = "download"
    /\ path_index <= Len(file_paths)
    /\ LET values == split(file_paths[path_index], ";")
           split_value == values[split_index]
           bids_id == bids_id_of(subject_list[sub_index])
           bids_year == year_list[year_index]
           full_file_path == full_file_path_of(split_value)
           object == strip(split_value)
       IN  /\ IF object \notin s3.missing
                  THEN IF object \notin s3.unreadable
                           THEN /\ downloaded' = downloaded \cup
                                       {<<bids_id, bids_year, object>>}
                                /\ UNCHANGED missing_files_log
                           ELSE /\ missing_files_log' =
                                       appended(missing_files_log,
                                                line_231(bids_id, bids_year,
                                                         full_file_path))
                                /\ UNCHANGED downloaded
                  ELSE /\ missing_files_log' =
                              appended(missing_files_log,
                                       line_238(bids_id, bids_year,
                                                full_file_path))
                       /\ UNCHANGED downloaded
           /\ path_index' = next_split(path_index, split_index, Len(values))[1]
           /\ split_index' = next_split(path_index, split_index, Len(values))[2]
    /\ pc' = "download"
    /\ UNCHANGED <<selvars, fmtvars, peervars, wrapvars, series_df, subject_list, modalities, sub_index, year_index, num, log,
                   tgz_dirs, s3, outvars>>

\* faulty variant: the subjects are the inner loop
EndIteration_subjects_inner ==
    /\ pc = "download"
    /\ path_index > Len(file_paths)
    /\ IF sub_index < Len(subject_list)
           THEN sub_index' = sub_index + 1 /\ year_index' = year_index
           ELSE sub_index' = IF year_index < Len(year_list)
                                 THEN 1 ELSE sub_index + 1
                /\ year_index' = IF year_index < Len(year_list)
                                     THEN year_index + 1 ELSE 1
    /\ pc' = "for"
    /\ UNCHANGED <<selvars, fmtvars, peervars, wrapvars, series_df, subject_list, modalities, num, log, missing_files_log,
                   path_index, split_index, tgz_dirs, downloaded, s3, outvars>>

\* the two for statements of lines 128 and 133 take their next value
EndIteration ==
    /\ pc = "download"
    /\ path_index > Len(file_paths)
    /\ IF year_index < Len(year_list)
           THEN year_index' = year_index + 1 /\ sub_index' = sub_index
           ELSE year_index' = 1 /\ sub_index' = sub_index + 1
    /\ pc' = "for"
    /\ UNCHANGED <<selvars, fmtvars, peervars, wrapvars, series_df, subject_list, modalities, num, log, missing_files_log,
                   path_index, split_index, tgz_dirs, downloaded, s3, outvars>>

\* lines 243-250: the loops are over, the totals are printed
PrintTotals ==
    /\ pc = "for"
    /\ sub_index > Len(subject_list)
    /\ pc' = "done"
    /\ UNCHANGED <<selvars, fmtvars, peervars, wrapvars, mainvars, outvars>>

\* the missing-files log that a run can find: none, or one left by an
\* earlier run
FoundFiles ==
    {NoFile,
     [exists |-> TRUE,
      lines |-> <<<<"Missing files log:", "\n">>,
                  line_231(bids_id_of("Y"), "00A",
                           full_file_path_of(<<"anat/t1.tgz">>))>>]}

\* the buckets of the runs of SpecMain
Buckets ==
    [missing : {{}, {<<"anat/t1.tgz">>}, {<<"func/rest.tgz">>, <<"anat/t1.json">>},
                OBJECTS},
     unreadable : {{}, {<<"fmap/fm.tgz">>, <<"anat/t1.json">>}}]

\* lines 78-127: main before its first iteration, with the subject list read
MainStart(subjects) ==
    /\ subject_list = subjects
    /\ modalities = MODALITIES
    /\ series_df \in SeriesTables
    /\ s3 \in Buckets
    /\ missing_files_log \in FoundFiles
    /\ sub_index = 1 /\ year_index = 1
    /\ num = ZeroNum
    /\ log = <<>>
    /\ path_index = 1 /\ split_index = 1
    /\ tgz_dirs = {}
    /\ downloaded = {}
    /\ pc = "for"
    /\ sub_ses_df = <<>>
    /\ file_paths = <<>>
    /\ has_t1 = 0 /\ has_t2 = 0 /\ has_sefm = 0 /\ has_rsfmri = 0
    /\ has_mid = 0 /\ has_sst = 0 /\ has_nback = 0 /\ has_dti = 0
    /\ all_qc_data = <<>>
    /\ reformatted_data = <<>>

\* a run for two subjects
InitMain == MainStart(<<"A", "B">>) /\ Alone

NextMain ==
    \/ StartIteration
    \/ CallAnat
    \/ CallFunc
    \/ CallDwi
    \/ WriteRow
    \/ CheckExists
    \/ CreateLog
    \/ DownloadSplit
    \/ EndIteration
    \/ PrintTotals

SpecMain == InitMain /\ [][NextMain]_vars

\* a run whose subject list names one subject twice: lines 128-133 visit each
\* of its sessions a second time and select from the same rows again
InitRerun == MainStart(<<"A", "A">>) /\ Alone

SpecRerun == InitRerun /\ [][NextMain]_vars

\* A second run of main, started by another user or job on the same
\* installation, shares temp/missing_files.txt with this one (the path of line
\* 196 is fixed).  Of its iteration only the steps on that file are steps
\* here: the test of line 198, the open(..., 'w') of lines 199-201 and the
\* append of lines 230-238 for a path of its own that it does not find.

\* line 198 in the second run
PeerCheckExists ==
    /\ peer_pc = "exists"
    /\ peer_pc' = IF missing_files_log.exists THEN "download" ELSE "create"
    /\ UNCHANGED <<selvars, pc, fmtvars, mainvars, wrapvars, outvars>>

\* lines 199-201 in the second run
PeerCreateLog ==
    /\ peer_pc = "create"
    /\ missing_files_log' =
           [exists |-> TRUE, lines |-> <<<<"Missing files log:", "\n">>>>]
    /\ peer_pc' = "download"
    /\ UNCHANGED <<selvars, pc, fmtvars, series_df, subject_list, modalities, sub_index, year_index, num,
                   log, path_index, split_index, tgz_dirs, downloaded, s3, wrapvars, outvars>>

\* lines 236-238 in the second run, and the end of its only iteration
PeerAppend ==
    /\ peer_pc = "download"
    /\ missing_files_log' =
           appended(missing_files_log,
                    line_238(bids_id_of("P"), "00A",
                             full_file_path_of(<<"anat/t1.tgz">>)))
    /\ peer_pc' = "done"
    /\ UNCHANGED <<selvars, pc, fmtvars, series_df, subject_list, modalities, sub_index, year_index, num,
                   log, path_index, split_index, tgz_dirs, downloaded, s3, wrapvars, outvars>>

\* two runs started together; this one has one subject visit with a T1
\* whose archive is not in the bucket
InitRace ==
    /\ MainStart(<<"A", "B">>)
    /\ s3.missing = {<<"anat/t1.tgz">>}
    /\ peer_pc = "exists"
    /\ remove = FALSE
    /\ start_at = "reformat_fastqc_spreadsheet"
    /\ temp_dir = {}
    /\ exit_code = "none"
    /\ subject_dir_paths = <<>>
    /\ output = {}
    /\ printed = <<>>

NextRace == NextMain \/ PeerCheckExists \/ PeerCreateLog \/ PeerAppend

SpecRace == InitRace /\ [][NextRace]_vars

-----------------------------------------------------------------------------
(* main of abcd2bids.py: the steps from --start_at on, cleanup, and the ways *)
(* the wrapper ends.  pc is the step about to run; "main" is the wrapper     *)
(* before line 71, "crashed" an exception that nothing catches, "finished"   *)
(* the end of the loop of lines 77-85, "exited" the wrapper gone, and       *)
(* "unpack_subject" the loop of unpack_and_setup over the subject folders.  *)
(* A step that runs another program sees whether that program succeeded and  *)
(* what it left in the folders: the downloader session folders and files in  *)
(* the download folder, unpack_and_setup.sh a converted session in the       *)
(* output folder and any set of subdirectories in the temp folder.           *)
(* exit_code is "0" or "1" for an exit status, "signal" for a wrapper that a *)
(* signal ended.                                                            *)

\* lines 36-37
STEP_NAMES == <<"reformat_fastqc_spreadsheet", "download_s3_data",
                "unpack_and_setup", "correct_jsons", "validate_bids">>

\* the step that the loop of lines 77-85 runs after the given one
step_after(step) ==
    LET i == CHOOSE k \in DOMAIN STEP_NAMES : STEP_NAMES[k] = step
    IN  IF i < Len(STEP_NAMES) THEN STEP_NAMES[i + 1] ELSE "finished"

\* the subdirectories of the temp folder that an earlier run left there
LEFT_OVER == {"left_over"}

\* the subdirectories that unpack_and_setup.sh can make in the temp folder
UNPACKED == {"sub-A_ses-00A"}

\* faulty variant: the loop starts at the first step whatever --start_at is
abcd2bids_main_from_first ==
    /\ pc = "main"
    /\ pc' = STEP_NAMES[1]
    /\ printed' = Append(printed, timestamp_when("abcd2bids.py", "started"))
    /\ UNCHANGED <<selvars, fmtvars, mainvars, peervars, wrapvars>>

\* lines 62-80: the handlers are set if --remove was given, and the loop
\* passes over the steps before --start_at
abcd2bids_main ==
    /\ pc = "main"
    /\ pc' = start_at
    /\ printed' = Append(printed, timestamp_when("abcd2bids.py", "started"))
    /\ UNCHANGED <<selvars, fmtvars, mainvars, peervars, wrapvars>>

\* lines 72-73: SIGINT and SIGTERM call cleanup(temp_dir, 1)
handlers_set == remove /\ pc # "main"

\* the download folder with nothing for a subject, with both session
\* folders and files in the first only, and with files in both
FOLDER_KINDS == {"none", "first", "both"}

FolderOf(sub, kind) ==
    LET bids_id == bids_id_of(sub)
    IN  [dirs |-> IF kind = "none" THEN {}
                  ELSE {<<bids_id, year_list[i]>> : i \in DOMAIN year_list},
         files |-> CASE kind = "none" -> {}
                     [] kind = "first" ->
                            {<<bids_id, year_list[1], <<"anat/t1.tgz">>>>}
                     [] kind = "both" ->
                            {<<bids_id, year_list[i], <<"func/rest.tgz">>>> :
                                i \in DOMAIN year_list}
                              \cup {<<bids_id, year_list[1], <<"anat/t1.tgz">>>>}]

\* the download folders of the wrapper's runs: any kind for subject A, and
\* nothing or both sessions for subject B
DOWNLOAD_FOLDERS ==
    {[dirs |-> FolderOf("A", a).dirs \cup FolderOf("B", b).dirs,
      files |-> FolderOf("A", a).files \cup FolderOf("B", b).files] :
        a \in FOLDER_KINDS, b \in {"none", "both"}}

\* lines 575-594: two check_call, either of which raises CalledProcessError
\* when the program it runs fails.  The second runs s3_downloader_revised.py,
\* which SpecMain follows step by step; the wrapper sees its exit status and
\* the session folders and files it has added to the download folder
download_s3_data ==
    /\ pc = "download_s3_data"
    /\ \E folder \in DOWNLOAD_FOLDERS :
           /\ tgz_dirs \subseteq folder.dirs
           /\ downloaded \subseteq folder.files
           /\ tgz_dirs' = folder.dirs
           /\ downloaded' = folder.files
    /\ \/ pc' = step_after("download_s3_data") /\ step_returns("download_s3_data")
       \/ pc' = "crashed" /\ step_raises("download_s3_data")
    /\ UNCHANGED <<selvars, fmtvars, series_df, subject_list, modalities, sub_index,
                   year_index, num, log, missing_files_log, path_index,
                   split_index, s3, peervars, wrapvars>>

\* the session folders of a subject folder, and those, of the given files,
\* that hold a file
sessions_of(bids_id) == {d[2] : d \in {e \in tgz_dirs : e[1] = bids_id}}

sessions_with_files(files, bids_id) ==
    {f[2] : f \in {g \in files : g[1] = bids_id}}

\* lines 597-625: the subjects of the list that have a folder in the
\* download folder are collected
unpack_and_setup ==
    /\ pc = "unpack_and_setup"
    /\ subject_dir_paths' =
           SelectSeq([i \in DOMAIN subject_list |-> bids_id_of(subject_list[i])],
                     LAMBDA bids_pid : sessions_of(bids_pid) # {})
    /\ printed' = Append(printed, timestamp_when("unpack_and_setup", "started"))
    /\ pc' = "unpack_subject"
    /\ UNCHANGED <<selvars, fmtvars, mainvars, peervars, remove, start_at,
                   output, temp_dir, exit_code>>

\* lines 628-665 for one subject without --remove: unpack_and_setup.sh is
\* run once for every session folder that holds a file, in the order in
\* which os.scandir gives the folders; a run that fails raises
\* CalledProcessError and the sessions after it are not reached
unpack_sessions(subject) ==
    /\ \E done \in SUBSET sessions_with_files(downloaded, subject) :
           /\ output' = output \cup {<<subject, y>> : y \in done}
           /\ \E made \in SUBSET UNPACKED :
                  /\ (sessions_with_files(downloaded, subject) = {}) => (made = {})
                  /\ temp_dir' = temp_dir \cup made
           /\ IF done = sessions_with_files(downloaded, subject)
              THEN pc' = "unpack_subject"
              ELSE pc' = "crashed"
    /\ UNCHANGED <<tgz_dirs, downloaded>>

\* lines 628-665 for one subject with --remove: after the first run of
\* unpack_and_setup.sh that succeeds, line 659 removes the whole subject
\* folder while os.scandir(subject_dir) is still being read.  What the scan
\* yields after that is up to the file system: nothing more, or an entry
\* whose is_dir() is False, and the other sessions are passed over; or an
\* entry taken for a folder, and os.scandir of it raises FileNotFoundError
unpack_sessions_remove(subject) ==
    IF sessions_with_files(downloaded, subject) = {}
    THEN /\ pc' = "unpack_subject"
         /\ UNCHANGED <<output, temp_dir, tgz_dirs, downloaded>>
    ELSE \E first \in sessions_with_files(downloaded, subject) :
            /\ \E made \in SUBSET UNPACKED : temp_dir' = temp_dir \cup made
            /\ \/ /\ pc' = "crashed"
                  /\ UNCHANGED <<output, tgz_dirs, downloaded>>
               \/ /\ output' = output \cup {<<subject, first>>}
                  /\ tgz_dirs' = {d \in tgz_dirs : d[1] # subject}
                  /\ downloaded' = {f \in downloaded : f[1] # subject}
                  /\ \/ pc' = "unpack_subject"
                     \/ /\ sessions_of(subject) # {first}
                        /\ pc' = "crashed"

\* lines 628-665: the sessions of the next subject folder
unpack_and_setup_subject ==
    /\ pc = "unpack_subject"
    /\ subject_dir_paths # <<>>
    /\ IF remove
       THEN unpack_sessions_remove(Head(subject_dir_paths))
       ELSE unpack_sessions(Head(subject_dir_paths))
    /\ subject_dir_paths' = Tail(subject_dir_paths)
    /\ UNCHANGED <<selvars, fmtvars, series_df, subject_list, modalities, sub_index,
                   year_index, num, log, missing_files_log, path_index,
                   split_index, s3, peervars, remove, start_at, exit_code,
                   outvars>>

\* lines 628-665 and 83-85: no subject folder is left and the step returns
unpack_and_setup_returns ==
    /\ pc = "unpack_subject"
    /\ subject_dir_paths = <<>>
    /\ printed' = Append(printed, timestamp_when("unpack_and_setup", "finished"))
    /\ pc' = step_after("unpack_and_setup")
    /\ UNCHANGED <<selvars, fmtvars, mainvars, peervars, wrapvars>>

\* lines 668-687: check_call raises CalledProcessError when the script fails
correct_jsons ==
    /\ pc = "correct_jsons"
    /\ \/ pc' = step_after("correct_jsons") /\ step_returns("correct_jsons")
       \/ pc' = "crashed" /\ step_raises("correct_jsons")
    /\ UNCHANGED <<selvars, fmtvars, mainvars, peervars, wrapvars>>

\* lines 690-712: a failed validation is caught and printed; a validator
\* that cannot be started raises an OSError that is not caught
validate_bids ==
    /\ pc = "validate_bids"
    /\ \/ pc' = step_after("validate_bids") /\ step_returns("validate_bids")
       \/ pc' = "crashed" /\ step_raises("validate_bids")
    /\ UNCHANGED <<selvars, fmtvars, mainvars, peervars, wrapvars>>

\* lines 397-415: every subdirectory of the temp folder is removed and the
\* wrapper exits with the given code
cleanup(code) ==
    /\ temp_dir' = {}
    /\ exit_code' = code
    /\ pc' = "exited"

\* lines 86-90: the end of main after the last step
main_ends ==
    /\ pc = "finished"
    /\ printed' = Append(printed, timestamp_when("abcd2bids.py", "finished"))
    /\ cleanup("0")
    /\ UNCHANGED <<selvars, fmtvars, mainvars, peervars, remove, start_at, subject_dir_paths, output>>

\* an exception that main does not catch: the interpreter prints the
\* traceback and exits with status 1; lines 86-90 are not reached
uncaught_exception ==
    /\ pc = "crashed"
    /\ pc' = "exited"
    /\ exit_code' = "1"
    /\ UNCHANGED <<selvars, fmtvars, mainvars, peervars, remove, start_at, subject_dir_paths, output,
                   temp_dir, outvars>>

\* lines 378-394: SIGINT or SIGTERM reaches the wrapper; with the handlers
\* set call_cleanup_function runs, without them the signal ends the wrapper
signal_received ==
    /\ pc # "exited"
    /\ IF handlers_set
       THEN cleanup("1")
       ELSE /\ pc' = "exited"
            /\ exit_code' = "signal"
            /\ temp_dir' = temp_dir
    /\ UNCHANGED <<selvars, fmtvars, mainvars, peervars, remove, start_at, subject_dir_paths, output, outvars>>

\* a raw table of one row whose series time is readable, or is not
WRAPPER_TABLES ==
    {<<RawRow(IntCell(20180102), t, IntCell(1), StrCell(<<"Yes">>))>> :
        t \in {IntCell(93015), StrCell(<<"0", "9", ":", "3", "0">>)}}

\* the wrapper started with any --start_at, with or without --remove, on a
\* temp folder that is empty or holds what an earlier run left
InitWrapper ==
    /\ pc = "main"
    /\ remove \in BOOLEAN
    /\ start_at \in {STEP_NAMES[i] : i \in DOMAIN STEP_NAMES}
    /\ temp_dir \in SUBSET LEFT_OVER
    /\ exit_code = "none"
    /\ subject_dir_paths = <<>>
    /\ output = {}
    /\ printed = <<>>
    /\ peer_pc = "off"
    /\ all_qc_data \in WRAPPER_TABLES
    /\ reformatted_data = <<>>
    /\ sub_ses_df = <<>>
    /\ file_paths = <<>>
    /\ has_t1 = 0 /\ has_t2 = 0 /\ has_sefm = 0 /\ has_rsfmri = 0
    /\ has_mid = 0 /\ has_sst = 0 /\ has_nback = 0 /\ has_dti = 0
    /\ series_df = <<>>
    /\ subject_list = <<"A", "B">>
    /\ modalities = MODALITIES
    /\ sub_index = 1 /\ year_index = 1
    /\ num = ZeroNum
    /\ log = <<>>
    /\ missing_files_log = NoFile
    /\ path_index = 1 /\ split_index = 1
    /\ \E folder \in DOWNLOAD_FOLDERS :
           tgz_dirs = folder.dirs /\ downloaded = folder.files
    /\ s3 = [missing |-> {}, unreadable |-> {}]

NextWrapper ==
    \/ abcd2bids_main
    \/ reformat_fastqc_spreadsheet
    \/ download_s3_data
    \/ unpack_and_setup
    \/ unpack_and_setup_subject
    \/ unpack_and_setup_returns
    \/ correct_jsons
    \/ validate_bids
    \/ main_ends
    \/ uncaught_exception
    \/ signal_received

SpecWrapper == InitWrapper /\ [][NextWrapper]_vars

-----------------------------------------------------------------------------
(* Observations of a state, used to state the properties.  Rows are named   *)
(* by their position in sub_ses_df.                                        *)

RowsOf(t) == {i \in DOMAIN sub_ses_df : sub_ses_df[i].SeriesType = t}

PassingOf(t) == {i \in RowsOf(t) : sub_ses_df[i].usable # 0}

\* the rows whose filename occurs in the path list
Selected == {i \in DOMAIN sub_ses_df :
                \E k \in DOMAIN file_paths : file_paths[k] = sub_ses_df[i].filename}

\* how many entries of the path list name a row of rows
Entries(rows) ==
    Cardinality({k \in DOMAIN file_paths :
                    \E i \in rows : file_paths[k] = sub_ses_df[i].filename})

\* position of row i among the rows of its own series type, counted from 1
Rank(i) == Cardinality({j \in RowsOf(sub_ses_df[i].SeriesType) : j <= i})

Smaller(a, b) == IF a < b THEN a ELSE b

\* the n-th candidates of types ap and pa both exist and are both usable
PairOK(ap, pa, n) ==
    /\ n <= Smaller(Cardinality(RowsOf(ap)), Cardinality(RowsOf(pa)))
    /\ \A i \in RowsOf(ap) \cup RowsOf(pa) : Rank(i) = n => sub_ses_df[i].usable # 0

PairedRows(ap, pa) == {i \in RowsOf(ap) \cup RowsOf(pa) : PairOK(ap, pa, Rank(i))}

\* the selector has just returned to main
AfterAnat == pc = "func"
AfterFunc == pc = "dwi"
AfterDwi == pc = "row"

\* at least one rsfMRI / MID / SST / nBack row passes QC
FuncPassing ==
    \E t \in {"ABCD-rsfMRI", "ABCD-MID-fMRI", "ABCD-SST-fMRI", "ABCD-nBack-fMRI"} :
        PassingOf(t) # {}

FuncFmapRows ==
    RowsOf("ABCD-fMRI-FM") \cup RowsOf("ABCD-fMRI-FM-AP") \cup RowsOf("ABCD-fMRI-FM-PA")

DwiRows ==
    RowsOf("ABCD-DTI") \cup RowsOf("ABCD-Diffusion-FM")
        \cup RowsOf("ABCD-Diffusion-FM-AP") \cup RowsOf("ABCD-Diffusion-FM-PA")

\* no QC-passing combined fMRI-FM row and no usable AP/PA pair
NoFuncFmapSet ==
    /\ PassingOf("ABCD-fMRI-FM") = {}
    /\ PairedRows("ABCD-fMRI-FM-AP", "ABCD-fMRI-FM-PA") = {}

AllFourSentinel ==
    has_rsfmri = 10000 /\ has_mid = 10000 /\ has_sst = 10000 /\ has_nback = 10000

-----------------------------------------------------------------------------
(* C1 *)

\* C1 as stated: whenever a functional row passes QC and the slice has no
\* fMRI-FM-AP row, add_func_paths returns 10000 for rsfMRI, MID, SST and nBack.
C1_AsStated ==
    (AfterFunc /\ FuncPassing /\ RowsOf("ABCD-fMRI-FM-AP") = {}) => AllFourSentinel

\* C1 (amended): whenever a functional row passes QC, the slice has no
\* fMRI-FM-AP row and no combined fMRI-FM row passes QC, add_func_paths returns
\* 10000 for rsfMRI, MID, SST and nBack, never 0 and never a row count.
C1_SentinelWithoutAP ==
    (/\ AfterFunc
     /\ FuncPassing
     /\ RowsOf("ABCD-fMRI-FM-AP") = {}
     /\ PassingOf("ABCD-fMRI-FM") = {}) => AllFourSentinel

C1_Witness ==
    /\ pc = "dwi"
    /\ PassingOf("ABCD-rsfMRI") # {}
    /\ RowsOf("ABCD-fMRI-FM-AP") = {}
    /\ PassingOf("ABCD-fMRI-FM-PA") # {}
    /\ PassingOf("ABCD-fMRI-FM") = {}
    /\ AllFourSentinel

-----------------------------------------------------------------------------
(* C2 *)

\* C2: when a functional row passes QC and there is neither a QC-passing
\* combined fMRI-FM row nor an index i below min(#AP, #PA) with AP[i] and PA[i]
\* both usable, the call of add_func_paths returns SEFM count 0 and 10000 for
\* all four functional counts and leaves the path list as it was; and no call
\* ever returns 10000 for some of the four counts only.
C2_NoFmapAllSentinel ==
    [][(pc = "func" /\ pc' = "dwi") =>
          /\ (FuncPassing /\ NoFuncFmapSet) =>
                 /\ has_sefm' = 0
                 /\ has_rsfmri' = 10000 /\ has_mid' = 10000
                 /\ has_sst' = 10000 /\ has_nback' = 10000
                 /\ file_paths' = file_paths
          /\ (10000 \in {has_rsfmri', has_mid', has_sst', has_nback'}) =>
                 {has_rsfmri', has_mid', has_sst', has_nback'} = {10000}]_vars

C2_Witness ==
    /\ pc = "dwi"
    /\ PassingOf("ABCD-rsfMRI") # {}
    /\ PassingOf("ABCD-fMRI-FM-AP") # {}
    /\ RowsOf("ABCD-fMRI-FM-PA") = {}
    /\ NoFuncFmapSet
    /\ has_sefm = 0
    /\ AllFourSentinel
    /\ Selected \cap (FuncFmapRows \cup RowsOf("ABCD-rsfMRI")) = {}

-----------------------------------------------------------------------------
(* C3 *)

\* of the candidates of types ap and pa, exactly the members of the usable
\* index-wise pairs are selected
PairingExact(ap, pa) ==
    LET m == Smaller(Cardinality(RowsOf(ap)), Cardinality(RowsOf(pa)))
    IN  /\ \A i \in RowsOf(ap) \cup RowsOf(pa) :
               /\ i \in Selected <=> PairOK(ap, pa, Rank(i))
               /\ Rank(i) > m => i \notin Selected
        /\ Cardinality(Selected \cap RowsOf(ap)) = Cardinality(Selected \cap RowsOf(pa))
        /\ Cardinality(Selected \cap RowsOf(ap)) <= m

\* directional pairing is what decides the functional / diffusion field maps
DirectionalFunc == FuncPassing /\ PassingOf("ABCD-fMRI-FM") = {}
DirectionalDwi == PassingOf("ABCD-DTI") # {} /\ PassingOf("ABCD-Diffusion-FM") = {}

-----------------------------------------------------------------------------
(* C4 *)

\* of the rows of one contrast, exactly the QC-passing NORM rows are selected
\* if there are any, else exactly the QC-passing plain rows; count is their number
NormPreferred(norm, plain, count) ==
    LET sel == Selected \cap (RowsOf(norm) \cup RowsOf(plain))
    IN  /\ PassingOf(norm) # {} => sel = PassingOf(norm)
        /\ PassingOf(norm) = {} => sel = PassingOf(plain)
        /\ count = Cardinality(sel)
        /\ count = Entries(RowsOf(norm) \cup RowsOf(plain))

\* C4: after add_anat_paths, if a T1-NORM row passes QC exactly the passing
\* T1-NORM rows are selected and no plain T1 row, otherwise exactly the passing
\* plain T1 rows; has_t1 is the number of selected T1 rows.  The same for T2, and
\* each contrast's outcome is determined by the rows of that contrast alone.
C4_NormPreferred ==
    AfterAnat =>
        /\ NormPreferred("ABCD-T1-NORM", "ABCD-T1", has_t1)
        /\ NormPreferred("ABCD-T2-NORM", "ABCD-T2", has_t2)
        /\ Len(file_paths) = has_t1 + has_t2

C4_Witness ==
    /\ pc = "func"
    /\ PassingOf("ABCD-T1-NORM") # {}
    /\ PassingOf("ABCD-T1") # {}
    /\ Selected \cap RowsOf("ABCD-T1") = {}
    /\ has_t1 = Cardinality(PassingOf("ABCD-T1-NORM"))
    /\ PassingOf("ABCD-T2-NORM") = {}
    /\ RowsOf("ABCD-T2-NORM") # {}
    /\ PassingOf("ABCD-T2") # {}
    /\ has_t2 = 1

-----------------------------------------------------------------------------
(* C5 *)

\* the QC-passing rows of type t are all selected, once each, and counted
CountedAndSelected(t, count) ==
    /\ count = Cardinality(PassingOf(t))
    /\ PassingOf(t) \subseteq Selected
    /\ Selected \cap RowsOf(t) = PassingOf(t)
    /\ Entries(RowsOf(t)) = count
    /\ count # 10000

-----------------------------------------------------------------------------
(* C6 *)

\* C6: in the field-map resolution of add_func_paths (a functional row passes
\* QC), if a combined fMRI-FM row passes QC then exactly the passing combined
\* rows are the selected field maps, has_sefm is their number, and no
\* fMRI-FM-AP or fMRI-FM-PA row is selected, usable or not.
C6_CombinedFmapWins ==
    (AfterFunc /\ FuncPassing /\ PassingOf("ABCD-fMRI-FM") # {}) =>
        /\ Selected \cap FuncFmapRows = PassingOf("ABCD-fMRI-FM")
        /\ has_sefm = Cardinality(PassingOf("ABCD-fMRI-FM"))
        /\ Entries(FuncFmapRows) = has_sefm
        /\ Selected \cap RowsOf("ABCD-fMRI-FM-AP") = {}
        /\ Selected \cap RowsOf("ABCD-fMRI-FM-PA") = {}

\* a passing combined row next to a usable AP/PA pair
C6_Witness ==
    /\ pc = "dwi"
    /\ FuncPassing
    /\ Cardinality(PassingOf("ABCD-fMRI-FM")) = 1
    /\ PairedRows("ABCD-fMRI-FM-AP", "ABCD-fMRI-FM-PA") # {}
    /\ has_sefm = 1
    /\ Selected \cap FuncFmapRows = PassingOf("ABCD-fMRI-FM")

-----------------------------------------------------------------------------
(* C7 *)

\* C7: if no rsfMRI, MID-fMRI, SST-fMRI or nBack-fMRI row passes QC, the call of
\* add_func_paths returns 0 for has_sefm, has_rsfmri, has_mid, has_sst and
\* has_nback and leaves the path list as it was, usable field maps or not.
C7_NotActivated ==
    [][(pc = "func" /\ pc' = "dwi" /\ ~FuncPassing) =>
          /\ has_sefm' = 0 /\ has_rsfmri' = 0 /\ has_mid' = 0
          /\ has_sst' = 0 /\ has_nback' = 0
          /\ file_paths' = file_paths]_vars

\* a QC-failing rsfMRI row, a usable AP/PA pair and an anatomical path
C7_Witness ==
    /\ pc = "dwi"
    /\ ~FuncPassing
    /\ RowsOf("ABCD-rsfMRI") # {}
    /\ PairedRows("ABCD-fMRI-FM-AP", "ABCD-fMRI-FM-PA") # {}
    /\ has_t1 = 1 /\ Len(file_paths) = 1
    /\ has_sefm = 0 /\ has_rsfmri = 0 /\ has_mid = 0 /\ has_sst = 0 /\ has_nback = 0

-----------------------------------------------------------------------------
(* C8 *)

\* C8: the has_dti returned by add_dwi_paths is the number of QC-passing DTI
\* rows, whether or not a diffusion field map was found, also when the slice has
\* no Diffusion-FM-AP row.
C8_DtiCountIsPassingRows ==
    AfterDwi => has_dti = Cardinality(PassingOf("ABCD-DTI"))

-----------------------------------------------------------------------------
(* C9 *)

\* the diffusion field-map set: the passing combined rows, or else the pairs
DwiFmapSet ==
    IF PassingOf("ABCD-Diffusion-FM") # {}
        THEN PassingOf("ABCD-Diffusion-FM")
        ELSE PairedRows("ABCD-Diffusion-FM-AP", "ABCD-Diffusion-FM-PA")

\* C9: after add_dwi_paths, diffusion rows are selected if and only if a DTI
\* row passes QC and a diffusion field-map set exists; then exactly the passing
\* DTI rows and the field-map set are selected, otherwise no DTI row and no
\* diffusion field map is; has_dti is never the sentinel 10000.
C9_DwiNeedsFmap ==
    AfterDwi =>
        /\ (PassingOf("ABCD-DTI") # {} /\ DwiFmapSet # {}) =>
               Selected \cap DwiRows = PassingOf("ABCD-DTI") \cup DwiFmapSet
        /\ ~(PassingOf("ABCD-DTI") # {} /\ DwiFmapSet # {}) =>
               Selected \cap DwiRows = {}
        /\ Entries(DwiRows) = Cardinality(Selected \cap DwiRows)
        /\ has_dti # 10000

\* passing DTI rows with a usable pair are listed with the pair
C9_Witness ==
    /\ pc = "row"
    /\ Cardinality(PassingOf("ABCD-DTI")) = 2
    /\ PassingOf("ABCD-Diffusion-FM") = {}
    /\ Cardinality(PairedRows("ABCD-Diffusion-FM-AP", "ABCD-Diffusion-FM-PA")) = 2
    /\ Cardinality(Selected \cap DwiRows) = 4
    /\ has_dti = 2

-----------------------------------------------------------------------------
(* C10 *)

\* the number a date or time cell stands for (NaN: none, taken as 0)
NumberOf(c) ==
    IF c.k = "str"
        THEN LET ds == SelectSeq(c.s, IsDigit)
                 val[i \in 0..Len(ds)] ==
                     IF i = 0 THEN 0 ELSE 10 * val[i - 1] + DigitVal(ds[i])
             IN  val[Len(ds)]
        ELSE c.n

Pow10(e) == IF e = 0 THEN 1 ELSE IF e = 1 THEN 10 ELSE IF e = 2 THEN 100
            ELSE IF e = 3 THEN 1000 ELSE IF e = 4 THEN 10000
            ELSE IF e = 5 THEN 100000 ELSE IF e = 6 THEN 1000000
            ELSE 10000000

\* the last width decimal digits of n, most significant first
Decimal(n, width) ==
    [i \in 1..width |-> DIGITS[((n \div Pow10(width - i)) % 10) + 1]]

\* C10: every row kept by reformat_fastqc_spreadsheet has as its
\* dicom_filename_ends_with the 8 digits of its study date followed by exactly
\* 6 digits of its series time (zero-padded, 000000 when the time is missing),
\* whether the cells were ints, floats or strings.
C10_SuffixIsDateAndSixTimeDigits ==
    pc = "download_s3_data" =>
        \A k \in 1..Len(reformatted_data) :
            LET r   == reformatted_data[k]
                raw == all_qc_data[r.index]
            IN  r.dicom_filename_ends_with =
                    Decimal(NumberOf(raw["StudyDate"]), 8)
                        \o Decimal(NumberOf(raw["SeriesTime"]), 6)


\* a string without its quote characters
Unquoted(s) == SelectSeq(s, LAMBDA p : p # "\"")

\* the flag of a raw row reads 0 / reads Bad
FlagIsZero(c) ==
    \/ c.k \in {"int", "float"} /\ c.n = 0 /\ c.f = 0
    \/ c.k = "str" /\ Unquoted(c.s) = <<"0">>

FlagIsBad(c) == c.k = "str" /\ Unquoted(c.s) = <<"Bad">>

\* the rows of the normalized table that come from raw row i
OutputOf(i) == {k \in 1..Len(reformatted_data) : reformatted_data[k].index = i}

Normalized == pc = "download_s3_data"

\* C11: the normalized table holds a raw row, once, exactly when its
\* completeness flag is not 0 and its compliance flag is not Bad; the QC
\* value, the series type and the series time of the row play no part
C11_KeptIffCompleteAndCompliant ==
    Normalized =>
        \A i \in 1..Len(all_qc_data) :
            Cardinality(OutputOf(i)) =
                IF /\ ~FlagIsZero(all_qc_data[i]["Completed"])
                   /\ ~FlagIsBad(all_qc_data[i]["ABCD_Compliant"])
                    THEN 1 ELSE 0

\* a row that failed QC, of a type without a template and without a time is
\* kept next to a row that is dropped
C11_Witness ==
    /\ Normalized
    /\ \E i, j \in 1..Len(all_qc_data) :
           /\ all_qc_data[i]["QC"] = IntCell(0)
           /\ all_qc_data[i]["SeriesType"] = StrCell(<<"Localizer">>)
           /\ all_qc_data[i]["SeriesTime"] = NaN
           /\ OutputOf(i) # {}
           /\ OutputOf(j) = {}

\* the series time of a raw row is missing, or is text that is not a number
TimeMissing(c) == c.k = "nan"

TimeUnreadable(c) == c.k = "str" /\ ~isnumeric(Unquoted(c.s))

SIX_ZEROS == <<"0", "0", "0", "0", "0", "0">>

\* C12: a row whose series time is missing or cannot be read as a number never
\* makes the normalizer fail; the normalizer completes, and such a row, when
\* kept, carries the time "000000"
C12_BadTimeNeverFails ==
    /\ pc # "crashed"
    /\ Normalized =>
           \A k \in 1..Len(reformatted_data) :
               LET time == all_qc_data[reformatted_data[k].index]["SeriesTime"]
               IN  TimeMissing(time) \/ TimeUnreadable(time)
                       => reformatted_data[k].SeriesTime = SIX_ZEROS

\* the parts of a string between its semicolons
RECURSIVE Fields(_)
Fields(s) ==
    IF \A i \in 1..Len(s) : s[i] # ";" THEN <<s>>
    ELSE LET i == CHOOSE j \in 1..Len(s) :
                      s[j] = ";" /\ \A l \in 1..(j - 1) : s[l] # ";"
         IN  <<SubSeq(s, 1, i - 1)>> \o Fields(SubSeq(s, i + 1, Len(s)))

\* a path without its last piece, the extension
Stem(path) == SubSeq(path, 1, Len(path) - 1)

WithTemplate == SERIES_TYPES \ {"Localizer"}

EventTypes == {"fMRI_MID_task", "fMRI_SST_task", "fMRI_nBack_task"}

\* C13: the file_path of a row of a series type with a template is a list
\* joined by semicolons: first the archive path, which ends in .dicom.tgz,
\* second the same path ending in .json instead, and third, for the MID, SST
\* and nBack task types and for no other type, the same path ending in
\* -EventRelatedInformation.txt; a row of a type without a template has no
\* file_path, and the normalizer does not fail on it
C13_PathList ==
    /\ pc # "crashed"
    /\ Normalized =>
           \A k \in 1..Len(reformatted_data) :
               LET series_type == reformatted_data[k].SeriesType.s[1]
                   file_path == reformatted_data[k].file_path
                   e == Fields(file_path.s)
               IN  IF series_type \in WithTemplate
                       THEN /\ file_path.k = "str"
                            /\ Len(e) = IF series_type \in EventTypes THEN 3 ELSE 2
                            /\ e[1][Len(e[1])] = ".dicom.tgz"
                            /\ e[2] = Stem(e[1]) \o <<".json">>
                            /\ Len(e) = 3 =>
                                   e[3] = Stem(e[1])
                                             \o <<"-EventRelatedInformation.txt">>
                       ELSE file_path = NaN

\* a task row with its three paths next to a row of a type without a template
C13_Witness ==
    /\ Normalized
    /\ \E k, l \in 1..Len(reformatted_data) :
           /\ reformatted_data[k].SeriesType.s[1] \in EventTypes
           /\ Len(Fields(reformatted_data[k].file_path.s)) = 3
           /\ reformatted_data[l].SeriesType.s[1] = "Localizer"
           /\ reformatted_data[l].file_path = NaN

Finished == pc = "done"

\* the k-th pair of subject list x session list, sessions innermost
PairOf(k) ==
    <<subject_list[((k - 1) \div Len(year_list)) + 1],
      year_list[((k - 1) % Len(year_list)) + 1]>>

NumPairs == Len(subject_list) * Len(year_list)

\* the pairs whose iteration has written its manifest row
RowsDue ==
    (sub_index - 1) * Len(year_list) + (year_index - 1)
        + (IF pc \in {"exists", "create", "download"} THEN 1 ELSE 0)

\* the rows of the QC table of the k-th pair
TableRowsOf(k) ==
    SelectSeq(series_df, LAMBDA r : /\ r.pGUID = bids_id_of(PairOf(k)[1])
                                    /\ r.EventName = year_of(PairOf(k)[2]))

\* the iteration of the k-th pair is the current one
Visiting(k) ==
    /\ pc \in {"anat", "func", "dwi", "row", "exists", "create", "download"}
    /\ k = (sub_index - 1) * Len(year_list) + year_index

\* a line of the missing-files log names the k-th pair
Names(line, k) ==
    /\ Len(line) >= 4
    /\ SubSeq(line, 1, 2) = bids_id_of(PairOf(k)[1])
    /\ line[4] = PairOf(k)[2]

Counts(row) ==
    <<row.has_t1, row.has_t2, row.has_sefm, row.has_rsfmri, row.has_mid,
      row.has_sst, row.has_nback, row.has_dti>>

IsPrefix(a, b) == Len(a) <= Len(b) /\ SubSeq(b, 1, Len(a)) = a

\* the rows written so far are those of the first pairs, in their order, and
\* a pair without QC rows has zero counts, no path and no missing-files line
C14_RowsInOrder ==
    /\ Len(log) = RowsDue
    /\ Finished => Len(log) = NumPairs
    /\ \A k \in 1..Len(log) :
           /\ log[k].bids_id = bids_id_of(PairOf(k)[1])
           /\ log[k].year = year_of(PairOf(k)[2])
           /\ TableRowsOf(k) = <<>> =>
                  /\ Counts(log[k]) = <<0, 0, 0, 0, 0, 0, 0, 0>>
                  /\ \A i \in 1..Len(missing_files_log.lines) :
                         ~Names(missing_files_log.lines[i], k)
    /\ \A k \in 1..NumPairs :
           Visiting(k) /\ TableRowsOf(k) = <<>> => file_paths = <<>>

\* C14: a run writes one manifest row for each pair of subject list x session
\* list, in the order of the iteration (sessions innermost), and a row, once
\* written, is never changed; the row of a pair without any QC row is there
\* as well, with all eight counts 0, no path selected for the pair and no
\* line of the missing-files log naming it
C14_OneRowPerPair == []C14_RowsInOrder /\ [][IsPrefix(log, log')]_vars

\* a finished run whose second pair has no QC row and whose other pairs
\* left lines in the missing-files log
C14_Witness ==
    /\ Finished
    /\ TableRowsOf(2) = <<>>
    /\ TableRowsOf(1) # <<>>
    /\ TableRowsOf(3) # <<>>
    /\ \E i \in 1..Len(missing_files_log.lines) :
           Names(missing_files_log.lines[i], 3)

\* the written rows whose count of one kind is a real, positive count
Positive(count) == count > 0 /\ count # 10000

RowsWith(Count(_)) == Cardinality({k \in 1..Len(log) : Positive(Count(log[k]))})

Totals(n) == <<n.t1, n.t2, n.rsfmri, n.mid, n.sst, n.nback, n.dti>>

TotalsOfLog ==
    <<RowsWith(LAMBDA row : row.has_t1), RowsWith(LAMBDA row : row.has_t2),
      RowsWith(LAMBDA row : row.has_rsfmri), RowsWith(LAMBDA row : row.has_mid),
      RowsWith(LAMBDA row : row.has_sst), RowsWith(LAMBDA row : row.has_nback),
      RowsWith(LAMBDA row : row.has_dti)>>

\* every total is the number of rows with a real count, and none is above
\* the number of subject visits
C15_TotalsMatchRows ==
    /\ Totals(num) = TotalsOfLog
    /\ \A i \in 1..7 : Totals(num)[i] <= num.sub_visits

\* from one state to the next a total stays or grows by 1, and it grows only
\* in the step that writes the row of a pair
C15_TotalsStep ==
    /\ \A i \in 1..7 : Totals(num')[i] - Totals(num)[i] \in {0, 1}
    /\ Totals(num') # Totals(num) => Len(log') = Len(log) + 1

\* C15: after any number of iterations each running total (T1, T2, rsfMRI,
\* MID, SST, nBack, DTI) is the number of processed pairs whose count of that
\* kind is above 0 and is not 10000; a count of 0 or 10000 never raises a
\* total, a pair raises a total by at most 1, and no total is above the number
\* of subject visits
C15_TotalsCountRealSeries == []C15_TotalsMatchRows /\ [][C15_TotalsStep]_vars

\* a finished run with a pair that has resting-state runs, one that has the
\* sentinel and one that has none
C15_Witness ==
    /\ Finished
    /\ \E i, j, k \in 1..Len(log) :
           /\ log[i].has_rsfmri = 1
           /\ log[j].has_rsfmri = 10000
           /\ log[k].has_rsfmri = 0
    /\ num.rsfmri = 1
    /\ num.t1 >= 1
    /\ num.dti >= 1

\* the paths that the three selectors give for the rows of the k-th pair
SelectedPathsOf(k) ==
    LET df == TableRowsOf(k)
        passed == SelectSeq(df, LAMBDA r : r.usable # 0)
        anat == add_anat_paths(passed, <<>>)[1]
        func == add_func_paths(df, passed, anat)[1]
    IN  add_dwi_paths(df, passed, func)[1]

\* the objects that a path names: its parts between semicolons, without
\* blanks
ObjectsOf(path) ==
    LET parts == Fields(path)
    IN  [i \in 1..Len(parts) |-> SelectSeq(parts[i], LAMBDA c : c # " ")]

\* a line of the missing-files log names the k-th pair and the object
NamesObject(line, k, object) ==
    /\ Names(line, k)
    /\ Len(line) >= 7 + Len(object)
    /\ SubSeq(line, 8, 7 + Len(object)) = object

Logged(k, object) ==
    \E i \in 1..Len(missing_files_log.lines) :
        NamesObject(missing_files_log.lines[i], k, object)

\* the k-th pair is done with value i of path p / with all its paths
Processed(k, p, i) ==
    \/ k <= Len(log) /\ ~Visiting(k)
    \/ /\ Visiting(k) /\ pc = "download"
       /\ p < path_index \/ (p = path_index /\ i < split_index)

\* the object that the next step of the download loop asks the bucket for
AtObject ==
    ObjectsOf(file_paths[path_index])[split_index]

AskingBucket == pc = "download" /\ path_index <= Len(file_paths)

\* every object asked for so far that ls did not find has its line, every
\* object that was there and readable has been fetched, and the run has a
\* next step until it is finished
C16_MissingLogged ==
    /\ \A k \in 1..NumPairs :
           \A p \in 1..Len(SelectedPathsOf(k)) :
               LET objects == ObjectsOf(SelectedPathsOf(k)[p])
               IN  \A i \in 1..Len(objects) :
                       Processed(k, p, i) =>
                           /\ objects[i] \in s3.missing => Logged(k, objects[i])
                           /\ objects[i] \notin (s3.missing \cup s3.unreadable)
                                  => <<bids_id_of(PairOf(k)[1]), PairOf(k)[2],
                                       objects[i]>> \in downloaded
    /\ Finished => Len(log) = NumPairs
    /\ ~Finished => ENABLED NextMain

\* the step for an object that ls does not find adds one line to the log and
\* goes on with the next value of the same path, or with the next path
C16_MissingStep ==
    AskingBucket /\ AtObject \in s3.missing =>
        /\ pc' = "download"
        /\ Len(missing_files_log'.lines) = Len(missing_files_log.lines) + 1
        /\ <<path_index', split_index'>> =
               IF split_index < Len(ObjectsOf(file_paths[path_index]))
                   THEN <<path_index, split_index + 1>>
                   ELSE <<path_index + 1, 1>>

C17_AppendOnly ==
    [][IsPrefix(missing_files_log.lines, missing_files_log'.lines)]_vars

\* the selector that a path of the list belongs to, by the series type of
\* its row: 1 anatomical, 2 functional (with its field maps), 3 diffusion
SelectorOf(filename) ==
    LET t == (CHOOSE r \in DOMAIN sub_ses_df : sub_ses_df[r].filename = filename)
        type == sub_ses_df[t].SeriesType
    IN  CASE type \in {"ABCD-T1-NORM", "ABCD-T1", "ABCD-T2-NORM", "ABCD-T2"} -> 1
          [] type \in {"ABCD-DTI", "ABCD-Diffusion-FM", "ABCD-Diffusion-FM-AP",
                       "ABCD-Diffusion-FM-PA"} -> 3
          [] OTHER -> 2

\* the selectors that have run
SelectorsRun ==
    CASE pc = "anat" -> 0 [] pc = "func" -> 1 [] pc = "dwi" -> 2 [] OTHER -> 3

\* the list is empty before the first selector, holds paths of the selectors
\* that have run only, and holds them selector by selector
C18_GroupedBySelector ==
    /\ pc = "anat" => file_paths = <<>>
    /\ \A i \in 1..Len(file_paths) : SelectorOf(file_paths[i]) <= SelectorsRun
    /\ \A i, j \in 1..Len(file_paths) :
           i < j => SelectorOf(file_paths[i]) <= SelectorOf(file_paths[j])

\* C18: for one pair the selectors run in the order anatomical, functional,
\* diffusion on one path list that is empty at first; the list holds all
\* anatomical paths before all functional paths before all diffusion paths,
\* and a selector never takes out or moves a path that an earlier one put in,
\* also when the functional selector returns its sentinels and when the
\* diffusion selector returns early
C18_SelectorsAppendInOrder ==
    []C18_GroupedBySelector /\ [][IsPrefix(file_paths, file_paths')]_vars

\* the three selectors have each put paths in the list
C18_Witness ==
    /\ pc = "row"
    /\ \A g \in 1..3 :
           \E i \in 1..Len(file_paths) : SelectorOf(file_paths[i]) = g

\* the file names of the rows of a slice that passed QC and hold a contrast:
\* those of its normalised series, or of its plain series if it has none
ContrastNames(rows, norm, plain) ==
    LET passing(t) == SelectSeq(rows, LAMBDA r : r.usable # 0 /\ r.SeriesType = t)
        chosen == IF passing(norm) # <<>> THEN passing(norm) ELSE passing(plain)
    IN  [i \in 1..Len(chosen) |-> chosen[i].filename]

\* the earlier visits of the pair of the k-th visit
EarlierVisits(k) == {j \in 1..(k - 1) : PairOf(j) = PairOf(k)}

\* right after the anatomical selector has run for the k-th visit: its path
\* list is settled by the rows of the pair alone, and its counts are those
\* that every earlier visit of the same pair wrote in its manifest row
C19_SameResultAsBefore ==
    \A k \in 1..NumPairs :
        (Visiting(k) /\ pc = "func") =>
            /\ file_paths =
                   ContrastNames(TableRowsOf(k), "ABCD-T1-NORM", "ABCD-T1")
                       \o ContrastNames(TableRowsOf(k), "ABCD-T2-NORM", "ABCD-T2")
            /\ \A j \in EarlierVisits(k) :
                   /\ TableRowsOf(j) = TableRowsOf(k)
                   /\ has_t1 = log[j].has_t1
                   /\ has_t2 = log[j].has_t2

\* the step of add_anat_paths leaves the slice and the table as they were
C19_SliceUntouched ==
    pc = "anat" => (sub_ses_df' = sub_ses_df /\ series_df' = series_df)

Terminated == pc = "exited"

\* C20: whenever the wrapper has ended, after its last step, after a step
\* that failed or after an interrupt signal, cleanup has run before: no
\* subdirectory is left in the temp folder and the wrapper has exited with
\* code 0 or with code 1
C20_CleanupBeforeExit ==
    Terminated => (temp_dir = {} /\ exit_code \in {"0", "1"})

\* the place of a step in STEP_NAMES
StepIndex(step) == CHOOSE k \in DOMAIN STEP_NAMES : STEP_NAMES[k] = step

\* the lines printed about steps, in the order they were printed
StepLines ==
    SelectSeq(printed,
              LAMBDA l : \E k \in DOMAIN STEP_NAMES : l.script = STEP_NAMES[k])

\* the lines of a run that goes through every step from the k-th on
RECURSIVE LinesFrom(_)
LinesFrom(k) ==
    IF k > Len(STEP_NAMES) THEN <<>>
    ELSE <<[script |-> STEP_NAMES[k], did_what |-> "started"],
           [script |-> STEP_NAMES[k], did_what |-> "finished"]>>
             \o LinesFrom(k + 1)

\* the lines of the steps from --start_at up to, not including, the k-th
LinesUpTo(k) == SubSeq(LinesFrom(StepIndex(start_at)), 1,
                       2 * (k - StepIndex(start_at)))

\* the wrapper has gone through the loop of lines 77-85 to its end
LoopDone == pc = "finished" \/ (pc = "exited" /\ exit_code = "0")

SubjectFolders == {bids_id_of(subject_list[i]) : i \in DOMAIN subject_list}

\* this step takes away the downloaded files of the subject
Removes(subject) ==
    /\ sessions_with_files(downloaded, subject) # {}
    /\ sessions_with_files(downloaded', subject) = {}

\* C22: a step of the wrapper that removes the downloaded data of a subject
\* leaves every session of that subject that held files converted: the
\* subject folder goes only after unpack_and_setup.sh has run for each of
\* its sessions with files
C22_RemovedOnlyAfterConversion ==
    [][\A subject \in SubjectFolders :
           Removes(subject) =>
               \A y \in sessions_with_files(downloaded, subject) :
                   <<subject, y>> \in output']_vars

\* the number of objects that a list of paths names
RECURSIVE ObjectCount(_)
ObjectCount(paths) ==
    IF paths = <<>> THEN 0
    ELSE Len(ObjectsOf(Head(paths))) + ObjectCount(Tail(paths))

\* the number of objects that the download loop has dealt with so far: those
\* of the pairs whose visit is over, and those before the place of the loop
\* in the current visit
RECURSIVE ObjectsDone(_)
ObjectsDone(k) ==
    IF k = 0 THEN 0
    ELSE ObjectsDone(k - 1) +
         (IF k <= Len(log) /\ ~Visiting(k)
              THEN ObjectCount(SelectedPathsOf(k))
              ELSE IF Visiting(k) /\ pc = "download"
                       THEN ObjectCount(SubSeq(file_paths, 1, path_index - 1))
                                + (split_index - 1)
                       ELSE 0)

\* the lines of the missing-files log that this run has written
LinesOfRun ==
    {i \in 1..Len(missing_files_log.lines) :
        \E k \in 1..NumPairs : Names(missing_files_log.lines[i], k)}

\* every object dealt with so far has been fetched or has its one line
C23_OneOutcomeEach ==
    Cardinality(downloaded) + Cardinality(LinesOfRun) = ObjectsDone(NumPairs)

\* the step of the download loop for one object: the object is fetched and
\* the log stays as it is, or one line naming it is appended and nothing is
\* fetched; the second if the object is found but cannot be read; and the
\* loop is at the next object afterwards
C23_OneOutcomeStep ==
    AskingBucket =>
        LET k == (sub_index - 1) * Len(year_list) + year_index
            file == <<bids_id_of(PairOf(k)[1]), PairOf(k)[2], AtObject>>
            fetched == /\ downloaded' = downloaded \cup {file}
                       /\ file \notin downloaded
                       /\ missing_files_log' = missing_files_log
            logged == /\ downloaded' = downloaded
                      /\ Len(missing_files_log'.lines) =
                             Len(missing_files_log.lines) + 1
                      /\ IsPrefix(missing_files_log.lines, missing_files_log'.lines)
                      /\ NamesObject(missing_files_log'.lines[
                                         Len(missing_files_log'.lines)],
                                     k, AtObject)
        IN  /\ fetched \/ logged
            /\ AtObject \in s3.unreadable => logged
            /\ pc' = "download"
            /\ <<path_index', split_index'>> # <<path_index, split_index>>

Asked(modality) == \E i \in DOMAIN modalities : modalities[i] = modality

\* what the three selectors give for the slice when all are called in turn
AnatOfAll == add_anat_paths(sub_pass_QC_df(sub_ses_df), <<>>)

FuncOfAll ==
    add_func_paths(sub_ses_df, sub_pass_QC_df(sub_ses_df), AnatOfAll[1])

DwiOfAll ==
    add_dwi_paths(sub_ses_df, sub_pass_QC_df(sub_ses_df), FuncOfAll[1])

\* the modality of the selector that a path belongs to
ModalityOf(filename) == MODALITIES[SelectorOf(filename)]

\* when the selectors have been passed: a modality that was not asked for
\* has counts 0 and no path, a modality that was asked for has the counts
\* of a run for all modalities, and the list holds the paths of such a run
\* that belong to the modalities asked for, in their order
C24_AbsentModalityAddsNothing ==
    pc = "row" =>
        /\ <<has_t1, has_t2>> =
               IF Asked("anat") THEN <<AnatOfAll[2], AnatOfAll[3]>> ELSE <<0, 0>>
        /\ <<has_sefm, has_rsfmri, has_mid, has_sst, has_nback>> =
               IF Asked("func")
                   THEN <<FuncOfAll[2], FuncOfAll[3], FuncOfAll[4],
                          FuncOfAll[5], FuncOfAll[6]>>
                   ELSE <<0, 0, 0, 0, 0>>
        /\ has_dti = (IF Asked("dwi") THEN DwiOfAll[2] ELSE 0)
        /\ file_paths =
               SelectSeq(DwiOfAll[1], LAMBDA f : Asked(ModalityOf(f)))

\* the place of a selector that was not asked for is passed without a call:
\* nothing of the iteration changes
C24_NotInvoked ==
    /\ (pc = "anat" /\ ~Asked("anat")) => UNCHANGED selvars
    /\ (pc = "func" /\ ~Asked("func")) => UNCHANGED selvars
    /\ (pc = "dwi" /\ ~Asked("dwi")) => UNCHANGED selvars

\* C24: a modality that the list of --modalities does not hold adds
\* nothing: its selector is not called, its counts in the manifest row stay
\* 0 and are never the sentinel 10000, the selection holds no path of it,
\* and the counts and paths of the modalities that the list holds are those
\* of a run for all modalities
C24_OnlyRequestedModalities ==
    []C24_AbsentModalityAddsNothing /\ [][C24_NotInvoked]_vars

\* a run for anat and dwi on a slice whose functional runs have no field
\* map: a run for all modalities would write the sentinel, this one writes
\* 0, and it has selected the T1 and a diffusion run
C24_Witness ==
    /\ pc = "row"
    /\ modalities = <<"anat", "dwi">>
    /\ FuncOfAll[3] = SENTINEL
    /\ has_rsfmri = 0
    /\ has_t1 = 1
    /\ has_dti >= 1
    /\ Len(file_paths) >= 2

====
